---- MODULE Spec2Model ----
(***************************************************************************)
(* The execution Scheduler of PsyNeuLink (PsyNeuLink/scheduling/           *)
(* Scheduler.py): construction of the consideration queue, the counters    *)
(* the Conditions read, and the run() generator, one action per step of    *)
(* the generator between two observable points.                            *)
(***************************************************************************)
EXTENDS Integers, Sequences, FiniteSets

(***************************************************************************)
(* Bounds of the model.                                                    *)
(***************************************************************************)
\* passes of one trial that are explored when counting is exact
MaxPass == 6
\* run() calls on one Scheduler
MaxRuns == 2
\* value at which counters stop growing when counting is saturating
MaxCount == 2
\* calls of _increment_time and _reset_time when they are exercised alone
MaxCalls == 2

(***************************************************************************)
(* Nodes and time scales.                                                  *)
(***************************************************************************)
Node == {"A", "B", "C"}

\* the TimeScale enumeration, finest to coarsest
TimeScale == {"TIME_STEP", "PASS", "TRIAL", "RUN", "LIFE"}
\* the place of a time scale in that order: a coarser scale has a higher rank
Rank(ts) ==
    CASE ts = "TIME_STEP" -> 1
      [] ts = "PASS" -> 2
      [] ts = "TRIAL" -> 3
      [] ts = "RUN" -> 4
      [] ts = "LIFE" -> 5

(***************************************************************************)
(* Conditions.  A Condition is a record of one shape; the fields a         *)
(* variant does not use are left empty.                                    *)
(***************************************************************************)
Cond(t, d, k, s, a) == [type |-> t, dep |-> d, n |-> k, ts |-> s, args |-> a]

\* Python's None where a Condition is expected
None == Cond("None", "", 0, "", <<>>)
Always == Cond("Always", "", 0, "", <<>>)
Never == Cond("Never", "", 0, "", <<>>)
AllHaveRun == Cond("AllHaveRun", "", 0, "TRIAL", <<>>)
EveryNCalls(d, k) == Cond("EveryNCalls", d, k, "", <<>>)
AfterNCalls(d, k, s) == Cond("AfterNCalls", d, k, s, <<>>)
AtPass(k) == Cond("AtPass", "", k, "TRIAL", <<>>)
AfterNPasses(k) == Cond("AfterNPasses", "", k, "TRIAL", <<>>)
EveryNPasses(k) == Cond("EveryNPasses", "", k, "TRIAL", <<>>)
Any(a) == Cond("Any", "", 0, "", a)
All(a) == Cond("All", "", 0, "", a)
Not(c) == Cond("Not", "", 0, "", <<c>>)

(***************************************************************************)
(* The toposort package, as _init_consideration_queue_from_system calls    *)
(* it: self dependencies are dropped, items that occur only as             *)
(* dependencies get an empty dependency set, and the items without         *)
(* unplaced dependencies are peeled off layer by layer.  What cannot be    *)
(* placed is left in rest: toposort then raises CircularDependencyError.   *)
(***************************************************************************)
RECURSIVE toposort_loop(_, _)
toposort_loop(data, acc) ==
    LET ordered == {item \in DOMAIN data : data[item] = {}}
    IN  IF ordered = {}
        THEN [layers |-> acc, rest |-> DOMAIN data]
        ELSE toposort_loop([item \in DOMAIN data \ ordered |-> data[item] \ ordered],
                           Append(acc, ordered))

toposort(graph) ==
    IF DOMAIN graph = {}
    THEN [layers |-> <<>>, rest |-> {}]
    ELSE LET noself == [k \in DOMAIN graph |-> graph[k] \ {k}]
             extra_items_in_deps == UNION {noself[k] : k \in DOMAIN graph} \ DOMAIN graph
             data == [k \in DOMAIN graph \cup extra_items_in_deps |->
                         IF k \in DOMAIN graph THEN noself[k] ELSE {}]
         IN  toposort_loop(data, <<>>)

\* the consideration set as the queue holds it: toposort_ordering may hold
\* an element that is no collection at all (iterable is then FALSE)
Layer(s) == [iterable |-> TRUE, elems |-> s]
NotIterable == [iterable |-> FALSE, elems |-> {}]

(***************************************************************************)
(* What the caller brings: the constructor's arguments, the Conditions it  *)
(* registers before the first run, and the termination_conds it may pass   *)
(* to run().                                                               *)
(***************************************************************************)
EmptyMap == [k \in {} |-> 0]

\* run() called without termination_conds
NoTerm == [given |-> FALSE, conds |-> EmptyMap]
\* {ts: None for ts in TimeScale} with the TRIAL entry set to c
TermTrial(c) == [given |-> TRUE,
                 conds |-> [ts \in TimeScale |-> IF ts = "TRIAL" THEN c ELSE None]]

GraphNodes(g) == DOMAIN g \cup UNION {g[k] : k \in DOMAIN g}
\* a System: its executionList holds the Mechanisms of its executionGraph
SystemOf(g) == [given |-> TRUE, executionList |-> GraphNodes(g), executionGraph |-> g]
NoSystem == [given |-> FALSE, executionList |-> {}, executionGraph |-> EmptyMap]
NodesOf(s) == [given |-> TRUE, list |-> s]
NoNodes == [given |-> FALSE, list |-> {}]
OrderingOf(q) == [given |-> TRUE, layers |-> q]
NoOrdering == [given |-> FALSE, layers |-> <<>>]
NoConditions == [n \in Node |-> None]

Input(sys, ns, ord, cs, tcs) ==
    [system |-> sys, nodes |-> ns, toposort_ordering |-> ord,
     conditions |-> cs, terms |-> tcs]

\* every graph specification dictionary over Node
Graphs == UNION {[K -> SUBSET Node] : K \in SUBSET Node}
GraphInputs == {Input(SystemOf(g), NoNodes, NoOrdering, NoConditions, {NoTerm}) : g \in Graphs}

\* the examples of the module docstring
LinearGraph == [k \in {"A", "B", "C"} |->
                   IF k = "B" THEN {"A"} ELSE IF k = "C" THEN {"B"} ELSE {}]
LinearInput ==
    Input(SystemOf(LinearGraph), NoNodes, NoOrdering,
          [n \in Node |-> IF n = "B" THEN EveryNCalls("A", 2)
                          ELSE IF n = "C" THEN EveryNCalls("B", 3) ELSE None],
          {NoTerm})
TwoProcessGraph == [k \in {"A", "B", "C"} |-> IF k = "C" THEN {"A", "B"} ELSE {}]
TwoProcessInput ==
    Input(SystemOf(TwoProcessGraph), NoNodes, NoOrdering,
          [n \in Node |-> IF n = "A" THEN EveryNPasses(1)
                          ELSE IF n = "B" THEN EveryNCalls("A", 2)
                          ELSE Any(<<AfterNCalls("A", 3, "TRIAL"), AfterNCalls("B", 3, "TRIAL")>>)],
          {TermTrial(AfterNCalls("C", 4, "TRIAL"))})
AlternateConditions ==
    [n \in Node |-> IF n = "A" THEN Any(<<AtPass(0), EveryNCalls("B", 2)>>)
                    ELSE IF n = "B" THEN Any(<<EveryNCalls("A", 1), EveryNCalls("B", 1)>>)
                    ELSE None]
AlternateGraph == [k \in {"A", "B"} |-> IF k = "B" THEN {"A"} ELSE {}]
AlternateInput ==
    Input(SystemOf(AlternateGraph), NoNodes, NoOrdering, AlternateConditions,
          {TermTrial(AfterNCalls("B", 4, "TRIAL"))})
\* the same Conditions on two Mechanisms without a Projection between them
UnconnectedGraph == [k \in {"A", "B"} |-> {}]
UnconnectedInput ==
    Input(SystemOf(UnconnectedGraph), NoNodes, NoOrdering, AlternateConditions,
          {TermTrial(AfterNCalls("B", 4, "TRIAL"))})
ExampleInputs == {LinearInput, TwoProcessInput, AlternateInput, UnconnectedInput}

\* a nodes list with a toposort_ordering of at most two elements
LayerValues == {Layer(s) : s \in SUBSET Node} \cup {NotIterable}
Orderings == {<<>>} \cup {<<l>> : l \in LayerValues}
                \cup {<<l, m>> : l \in LayerValues, m \in LayerValues}
OrderingInputs ==
    {Input(NoSystem, NodesOf({"A", "B"}), OrderingOf(q), NoConditions, {NoTerm}) : q \in Orderings}

\* constructor calls that leave out an argument, or give both sources
PartialInputs ==
    {Input(NoSystem, NoNodes, NoOrdering, NoConditions, {NoTerm}),
     Input(NoSystem, NodesOf({"A", "B"}), NoOrdering, NoConditions, {NoTerm}),
     Input(NoSystem, NoNodes, OrderingOf(<<Layer({"A"})>>), NoConditions, {NoTerm}),
     Input(SystemOf(AlternateGraph), NodesOf({"A"}), OrderingOf(<<Layer({"A"})>>),
           NoConditions, {NoTerm}),
     Input(SystemOf(AlternateGraph), NodesOf({"A"}), NoOrdering, NoConditions, {NoTerm})}

\* {ts: None for ts in TimeScale} with the TRIAL entry set to c and the PASS
\* entry set to p
TermTrialPass(c, p) ==
    [given |-> TRUE,
     conds |-> [ts \in TimeScale |->
                   IF ts = "TRIAL" THEN c ELSE IF ts = "PASS" THEN p ELSE None]]

\* termination_conds mappings: complete, with a PASS entry, with TRIAL set to
\* None, without a TRIAL entry, and none at all
TerminationInputs ==
    {Input(SystemOf(AlternateGraph), NoNodes, NoOrdering, NoConditions,
           {NoTerm,
            TermTrial(AfterNPasses(2)),
            TermTrialPass(AfterNPasses(2), Always),
            TermTrial(None),
            [given |-> TRUE, conds |-> [ts \in {"RUN"} |-> AllHaveRun]]})}

\* two nodes, in one consideration set or in two, under the Conditions of a
\* small vocabulary
Vocabulary(n, other) ==
    {None, Never, AtPass(1), AfterNPasses(1), Not(AtPass(0)), Not(EveryNCalls(other, 1)),
     EveryNCalls(other, 1), EveryNCalls(other, 2), EveryNCalls(n, 1),
     AfterNCalls(other, 2, "TRIAL"),
     Any(<<AtPass(0), EveryNCalls(other, 2)>>),
     All(<<AfterNPasses(1), EveryNCalls(other, 1)>>)}
ConditionInputs ==
    {Input(SystemOf(g), NoNodes, NoOrdering,
           [n \in Node |-> IF n = "A" THEN a ELSE IF n = "B" THEN b ELSE None],
           {NoTerm, TermTrial(AfterNPasses(3))}) :
        g \in {AlternateGraph, UnconnectedGraph},
        a \in Vocabulary("A", "B"), b \in Vocabulary("B", "A")}

\* a single node whose Condition is never satisfied, in a trial of three passes
SingleNodeGraph == [k \in {"A"} |-> {}]
NeverInput ==
    Input(SystemOf(SingleNodeGraph), NoNodes, NoOrdering,
          [n \in Node |-> IF n = "A" THEN Never ELSE None],
          {TermTrial(AfterNPasses(3))})

\* the Projection A -> B with A under Always and B under EveryNCalls(A, n),
\* in trials that end after a number of passes, or of calls of A or of B
EveryNInputs ==
    {Input(SystemOf(AlternateGraph), NoNodes, NoOrdering,
           [n \in Node |-> IF n = "A" THEN Always
                           ELSE IF n = "B" THEN EveryNCalls("A", k) ELSE None],
           {NoTerm, TermTrial(AfterNPasses(MaxPass)),
            TermTrial(AfterNCalls("A", 2, "TRIAL")),
            TermTrial(AfterNCalls("B", 2, "TRIAL"))}) : k \in 1..3}

\* A -> B in a trial whose termination Condition holds once A has run in
\* pass 0 and no longer holds when pass 0 has been counted
PassZeroInput ==
    Input(SystemOf(AlternateGraph), NoNodes, NoOrdering, NoConditions,
          {TermTrial(All(<<AfterNCalls("A", 1, "TRIAL"), AtPass(0)>>))})

\* an empty nodes list with an empty toposort_ordering
EmptyInput == Input(NoSystem, NodesOf({}), OrderingOf(<<>>), NoConditions, {NoTerm})

\* the orderings whose elements are all sets of nodes of the nodes list
NodeOrderingInputs ==
    {i \in OrderingInputs :
        \A k \in 1..Len(i.toposort_ordering.layers) :
            /\ i.toposort_ordering.layers[k].iterable
            /\ i.toposort_ordering.layers[k].elems \subseteq i.nodes.list}

\* the inputs whose Conditions compare no counter with a number above MaxCount
FairInputs == GraphInputs \cup NodeOrderingInputs \cup TerminationInputs

Inputs == GraphInputs \cup ExampleInputs \cup OrderingInputs \cup PartialInputs
            \cup TerminationInputs \cup ConditionInputs \cup EveryNInputs
            \cup {NeverInput, EmptyInput, PassZeroInput}

(***************************************************************************)
(* State.                                                                  *)
(***************************************************************************)
VARIABLES
    input,                          \* what the caller brings (never changes)
    counting,                       \* "exact" or "saturating" (see Bump)
    pc,                             \* where the caller and the generator are
    err,                            \* the exception raised last, or "none"
    nodes,                          \* self.nodes
    consideration_queue,            \* self.consideration_queue
    iteration_order,                \* the order iter() gives each consideration set
    condition_set,                  \* self.condition_set.conditions
    termination_conds,              \* self.termination_conds
    times,                          \* self.times
    counts_total,                   \* self.counts_total
    counts_useable,                 \* self.counts_useable
    execution_list,                 \* self.execution_list
    execution_list_has_changed,     \* locals of run()
    cur_index_consideration_queue,
    cur_time_step_exec,
    cur_consideration_set_has_changed,
    cur_position,                   \* place of the for loop in iteration_order
    cur_scan,                       \* which run of the for loop this is, from 1
    runs,                           \* run() calls made so far
    passed,                         \* the termination_conds argument of each of them
    abandoned,                      \* generators the caller dropped at a yield
    suspended,                      \* the generator the caller holds beside the one
                                    \* it resumes: its position and locals
    list_at_start,                  \* execution_list when the generator started
    yielded,                        \* what the caller collected from the generator
    returned,                       \* the generator's return value
    instance,                       \* which Scheduler of the caller this one is: 1 or 2
    first,                          \* the counters of the caller's first Scheduler
    bound                           \* the scheduler attribute of the Conditions of
                                    \* each termination_conds mapping, 0 for None

vars == <<input, counting, pc, err, nodes, consideration_queue, iteration_order,
          condition_set, termination_conds, times, counts_total, counts_useable,
          execution_list, execution_list_has_changed, cur_index_consideration_queue,
          cur_time_step_exec, cur_consideration_set_has_changed, cur_position, cur_scan,
          runs, passed, abandoned, suspended, list_at_start, yielded, returned,
          instance, first, bound>>

scheduler == <<nodes, consideration_queue, iteration_order, condition_set,
               termination_conds, times, counts_total, counts_useable, execution_list>>
locals == <<execution_list_has_changed, cur_index_consideration_queue,
            cur_time_step_exec, cur_consideration_set_has_changed, cur_position, cur_scan>>
caller == <<runs, passed, abandoned, suspended, list_at_start, yielded, returned>>
instances == <<instance, first, bound>>

(***************************************************************************)
(* Counting.  Counters are Python integers and grow without bound.  When   *)
(* counting is "exact" the model follows a trial for MaxPass passes and    *)
(* stops.  When counting is "saturating" a counter that has reached        *)
(* MaxCount stays there, standing for "MaxCount or more", and the          *)
(* histories stop growing at that length: a trial that never ends is then  *)
(* a cycle of finitely many states.  Saturation is used only with          *)
(* Conditions that compare a counter with a number below MaxCount.         *)
(***************************************************************************)
Bump(x) == IF counting = "saturating" /\ x >= MaxCount THEN x ELSE x + 1
Record(list, s) ==
    IF counting = "saturating" /\ Len(list) >= MaxCount THEN list ELSE Append(list, s)

(***************************************************************************)
(* Condition.is_satisfied, for the Condition c of node owner (owner is ""  *)
(* for a termination Condition): satisfied_in reads the counters it is     *)
(* given, is_satisfied those of the Scheduler.                             *)
(***************************************************************************)
RECURSIVE satisfied_in(_, _, _, _, _)
satisfied_in(c, owner, t, total, useable) ==
    CASE c.type = "Always" -> TRUE
      [] c.type = "Never" -> FALSE
      [] c.type = "AllHaveRun" -> \A d \in nodes : total[c.ts][d] >= 1
      [] c.type = "EveryNCalls" -> useable[c.dep][owner] >= c.n
      [] c.type = "AfterNCalls" -> total[c.ts][c.dep] >= c.n
      [] c.type = "AtPass" -> t[c.ts]["PASS"] = c.n
      [] c.type = "AfterNPasses" -> t[c.ts]["PASS"] >= c.n
      [] c.type = "EveryNPasses" -> t[c.ts]["PASS"] % c.n = 0
      [] c.type = "Any" ->
            \E i \in 1..Len(c.args) : satisfied_in(c.args[i], owner, t, total, useable)
      [] c.type = "All" ->
            \A i \in 1..Len(c.args) : satisfied_in(c.args[i], owner, t, total, useable)
      [] c.type = "Not" -> ~satisfied_in(c.args[1], owner, t, total, useable)

is_satisfied(c, owner) == satisfied_in(c, owner, times, counts_total, counts_useable)

(***************************************************************************)
(* Scheduler.__init__                                                      *)
(***************************************************************************)
\* the queue when new_set is created once, before the loop over the layers
init_consideration_queue_one_set(system) ==
    LET sorted == toposort(system.executionGraph)
    IN  [ok |-> sorted.rest = {},
         queue |-> [i \in 1..Len(sorted.layers) |->
                       Layer(UNION {sorted.layers[j] : j \in 1..Len(sorted.layers)})]]

\* _init_consideration_queue_from_system
init_consideration_queue_from_system(system) ==
    LET sorted == toposort(system.executionGraph)
    IN  [ok |-> sorted.rest = {},
         queue |-> [i \in 1..Len(sorted.layers) |-> Layer(sorted.layers[i])]]

\* the constructor when it refuses an ordering with an element that is not
\* iterable
init_ordering_checked(system, nodes_arg, toposort_ordering) ==
    IF system.given
    THEN LET q == init_consideration_queue_from_system(system)
         IN  IF q.ok
             THEN [raises |-> "none", nodes |-> system.executionList, queue |-> q.queue]
             ELSE [raises |-> "CircularDependencyError", nodes |-> {}, queue |-> <<>>]
    ELSE IF nodes_arg.given
    THEN IF ~toposort_ordering.given
            \/ \E i \in 1..Len(toposort_ordering.layers) : ~toposort_ordering.layers[i].iterable
         THEN [raises |-> "SchedulerError", nodes |-> {}, queue |-> <<>>]
         ELSE [raises |-> "none", nodes |-> nodes_arg.list, queue |-> toposort_ordering.layers]
    ELSE [raises |-> "SchedulerError", nodes |-> {}, queue |-> <<>>]

\* the constructor when the nodes list is looked at before the system
init_nodes_first(system, nodes_arg, toposort_ordering) ==
    IF nodes_arg.given
    THEN IF ~toposort_ordering.given
         THEN [raises |-> "SchedulerError", nodes |-> {}, queue |-> <<>>]
         ELSE [raises |-> "none", nodes |-> nodes_arg.list, queue |-> toposort_ordering.layers]
    ELSE IF system.given
    THEN LET q == init_consideration_queue_from_system(system)
         IN  IF q.ok
             THEN [raises |-> "none", nodes |-> system.executionList, queue |-> q.queue]
             ELSE [raises |-> "CircularDependencyError", nodes |-> {}, queue |-> <<>>]
    ELSE [raises |-> "SchedulerError", nodes |-> {}, queue |-> <<>>]

\* the outcome of the constructor: the exception it raises or the nodes and
\* the consideration queue of the new Scheduler
init(system, nodes_arg, toposort_ordering) ==
    IF system.given
    THEN LET q == init_consideration_queue_from_system(system)
         IN  IF q.ok
             THEN [raises |-> "none", nodes |-> system.executionList, queue |-> q.queue]
             ELSE [raises |-> "CircularDependencyError", nodes |-> {}, queue |-> <<>>]
    ELSE IF nodes_arg.given
    THEN IF ~toposort_ordering.given
         THEN [raises |-> "SchedulerError", nodes |-> {}, queue |-> <<>>]
         ELSE [raises |-> "none", nodes |-> nodes_arg.list, queue |-> toposort_ordering.layers]
    ELSE [raises |-> "SchedulerError", nodes |-> {}, queue |-> <<>>]

\* _init_counts
init_times == [ts \in TimeScale |-> [ts2 \in TimeScale |-> 0]]
init_counts_total(ns) == [ts \in TimeScale |-> [n \in ns |-> 0]]
init_counts_useable(ns) == [node \in ns |-> [n \in ns |-> 0]]

\* the orders in which a set can be iterated
Perms(S) == {f \in [1..Cardinality(S) -> S] : \A x \in S : \E i \in 1..Cardinality(S) : f[i] = x}
IterationOrders(queue) ==
    {o \in [1..Len(queue) -> UNION {Perms(queue[i].elems) : i \in 1..Len(queue)}] :
        \A i \in 1..Len(queue) : o[i] \in Perms(queue[i].elems)}

\* the counters of a Scheduler the caller holds beside the one it operates;
\* NoScheduler when it holds none
CountersOf(t, total, useable, list) ==
    [times |-> t, counts_total |-> total, counts_useable |-> useable,
     execution_list |-> list]
NoScheduler == CountersOf(init_times, init_counts_total({}), init_counts_useable({}), <<>>)

\* a generator of run() as the caller holds it while it resumes another: the
\* run() call that made it, where it is, and its locals; NoFrame when the
\* caller holds none
Frame(r, at, e, has_changed, index, exec, set_changed, position, scan, start, ys, ret) ==
    [run |-> r, pc |-> at, err |-> e,
     execution_list_has_changed |-> has_changed,
     cur_index_consideration_queue |-> index,
     cur_time_step_exec |-> exec,
     cur_consideration_set_has_changed |-> set_changed,
     cur_position |-> position, cur_scan |-> scan,
     list_at_start |-> start, yielded |-> ys, returned |-> ret]
NoFrame == Frame(0, "idle", "none", FALSE, 0, {}, FALSE, 0, 0, <<>>, <<>>, <<>>)

\* the state before the constructor is called, for the inputs ins
Start(ins, mode) ==
    /\ input \in ins
    /\ counting = mode
    /\ pc = "new"
    /\ err = "none"
    /\ nodes = {}
    /\ consideration_queue = <<>>
    /\ iteration_order = <<>>
    /\ condition_set = NoConditions
    /\ termination_conds = NoTerm
    /\ times = init_times
    /\ counts_total = init_counts_total({})
    /\ counts_useable = init_counts_useable({})
    /\ execution_list = <<>>
    /\ execution_list_has_changed = FALSE
    /\ cur_index_consideration_queue = 0
    /\ cur_time_step_exec = {}
    /\ cur_consideration_set_has_changed = FALSE
    /\ cur_position = 0
    /\ cur_scan = 0
    /\ runs = 0
    /\ passed = <<>>
    /\ abandoned = 0
    /\ suspended = NoFrame
    /\ list_at_start = <<>>
    /\ yielded = <<>>
    /\ returned = <<>>
    /\ instance = 1
    /\ first = NoScheduler
    /\ bound = [tc \in input.terms |-> 0]

Init == Start(Inputs, "exact")

\* Scheduler(system=..., nodes=..., toposort_ordering=...)
Construct ==
    /\ pc = "new"
    /\ LET new == init(input.system, input.nodes, input.toposort_ordering)
       IN  /\ pc' = IF new.raises = "none" THEN "constructed" ELSE "failed"
           /\ err' = new.raises
           /\ nodes' = new.nodes
           /\ consideration_queue' = new.queue
           /\ iteration_order' \in IterationOrders(new.queue)
           /\ times' = init_times
           /\ counts_total' = init_counts_total(new.nodes)
           /\ counts_useable' = init_counts_useable(new.nodes)
    /\ UNCHANGED <<input, counting, instances, condition_set, termination_conds, execution_list>>
    /\ UNCHANGED <<locals, caller>>

\* add_condition_set: the Conditions the caller registers before running
add_condition_set ==
    /\ pc = "constructed"
    /\ pc' = "idle"
    /\ condition_set' = [n \in Node |-> IF input.conditions[n] # None
                                        THEN input.conditions[n] ELSE condition_set[n]]
    /\ UNCHANGED <<input, counting, instances, err, nodes, consideration_queue, iteration_order,
                   termination_conds, times, counts_total, counts_useable, execution_list>>
    /\ UNCHANGED <<locals, caller>>

(***************************************************************************)
(* The counters' updates.                                                  *)
(***************************************************************************)
\* the reset that leaves the counts as they are
reset_count_kept(count, time_scale) == count

\* _reset_count(count, time_scale)
reset_count(count, time_scale) ==
    [count EXCEPT ![time_scale] = [c \in DOMAIN count[time_scale] |-> 0]]

\* the increment made only within time_scale and the coarser time scales
increment_time_within_coarser(t, time_scale) ==
    [ts \in TimeScale |->
        IF Rank(ts) >= Rank(time_scale)
        THEN [t[ts] EXCEPT ![time_scale] = Bump(t[ts][time_scale])]
        ELSE t[ts]]

\* the increment that leaves out the entry of time_scale within itself
increment_time_of_others(t, time_scale) ==
    [ts \in TimeScale |->
        IF ts = time_scale THEN t[ts]
        ELSE [t[ts] EXCEPT ![time_scale] = Bump(t[ts][time_scale])]]

\* _increment_time(time_scale)
increment_time(t, time_scale) ==
    [ts \in TimeScale |-> [t[ts] EXCEPT ![time_scale] = Bump(t[ts][time_scale])]]

\* the reset of the counts of time_scale and the finer time scales only
reset_time_of_finer(t, time_scale) ==
    [t EXCEPT ![time_scale] =
        [ts \in TimeScale |-> IF Rank(ts) <= Rank(time_scale) THEN 0 ELSE t[time_scale][ts]]]

\* the reset of the counts of every time scale
reset_time_of_all(t, time_scale) ==
    [ts \in TimeScale |-> [ts2 \in TimeScale |-> 0]]

\* _reset_time(time_scale)
reset_time(t, time_scale) ==
    [t EXCEPT ![time_scale] = [ts \in TimeScale |-> 0]]

\* the count when only the PASS scale is counted
count_execution_pass_only(count, current_node) ==
    [count EXCEPT !["PASS"][current_node] = Bump(count["PASS"][current_node])]

\* run, lines 495-496: current_node is counted at every time scale
count_execution(count, current_node) ==
    [ts \in TimeScale |-> [count[ts] EXCEPT ![current_node] = Bump(count[ts][current_node])]]

\* the update with the two indices exchanged
update_counts_useable_transposed(count, current_node) ==
    LET reset == [count EXCEPT ![current_node] = [n \in DOMAIN count |-> 0]]
    IN  [n \in DOMAIN count |->
            [reset[n] EXCEPT ![current_node] = Bump(reset[n][current_node])]]

\* the update with the increment made before the reset
update_counts_useable_increment_first(count, current_node) ==
    LET incremented == [count EXCEPT ![current_node] =
                           [n \in DOMAIN count |-> Bump(count[current_node][n])]]
    IN  [n \in DOMAIN count |-> [incremented[n] EXCEPT ![current_node] = 0]]

\* the update without the reset of the counts useable by current_node
update_counts_useable_unconsumed(count, current_node) ==
    [count EXCEPT ![current_node] = [n \in DOMAIN count |-> Bump(count[current_node][n])]]

\* run, lines 497-504: the counts useable by current_node are reset, then the
\* counts of current_node useable by every node are incremented
update_counts_useable(count, current_node) ==
    LET reset == [n \in DOMAIN count |-> [count[n] EXCEPT ![current_node] = 0]]
    IN  [reset EXCEPT ![current_node] = [n \in DOMAIN count |-> Bump(reset[current_node][n])]]

\* run, lines 475-507: the do-while loop over a consideration set, scanned in
\* the given order from the given position, with the time step and the
\* counters as they stand; the time step and the counters when it ends
RECURSIVE scan_consideration_set(_, _, _, _, _, _)
scan_consideration_set(order, position, exec, has_changed, total, useable) ==
    IF position > Len(order)
    THEN IF has_changed
         THEN scan_consideration_set(order, 1, exec, FALSE, total, useable)
         ELSE [cur_time_step_exec |-> exec, counts_total |-> total, counts_useable |-> useable]
    ELSE LET current_node == order[position]
         IN  IF current_node \notin exec
                /\ satisfied_in(condition_set[current_node], current_node, times, total, useable)
             THEN scan_consideration_set(order, position + 1, exec \cup {current_node}, TRUE,
                                         count_execution(total, current_node),
                                         update_counts_useable(useable, current_node))
             ELSE scan_consideration_set(order, position + 1, exec, has_changed, total, useable)

(***************************************************************************)
(* Validation at the start of run().                                       *)
(***************************************************************************)
\* the validation that gives every node Always, registered or not
validate_condition_set_all_always(conditions) ==
    [n \in Node |-> IF n \in nodes THEN Always ELSE conditions[n]]

\* _validate_condition_set
validate_condition_set(conditions) ==
    [n \in Node |-> IF n \in nodes /\ conditions[n] = None THEN Always ELSE conditions[n]]

\* _validate_termination: the mapping self.termination_conds holds afterwards
\* and whether SchedulerError is raised
\* The Conditions of a mapping the caller passes keep the scheduler they
\* have, and get this one if they have none (lines 413-415); the AllHaveRun
\* of line 407 are new and get this one.
validate_termination(tc) ==
    LET conds == IF tc.given THEN tc.conds ELSE [ts \in TimeScale |-> AllHaveRun]
    IN  [conds |-> [given |-> TRUE, conds |-> conds,
                    scheduler |-> IF tc.given /\ bound[tc] # 0 THEN bound[tc] ELSE instance],
         raises |-> IF "TRIAL" \in DOMAIN conds /\ conds["TRIAL"] = None
                    THEN "SchedulerError" ELSE "none"]

\* self.termination_conds[TimeScale.TRIAL].is_satisfied(): the Condition reads
\* the counters of the Scheduler in its scheduler attribute
trial_terminated ==
    IF termination_conds.scheduler = instance
    THEN is_satisfied(termination_conds.conds["TRIAL"], "")
    ELSE satisfied_in(termination_conds.conds["TRIAL"], "",
                      first.times, first.counts_total, first.counts_useable)

(***************************************************************************)
(* run(): the generator.                                                   *)
(***************************************************************************)
\* a first resumption that resets the counters of the run before it validates
first_resumption_reset_first(tcs) ==
    /\ runs < MaxRuns
    /\ \E tc \in tcs :
         LET v == validate_termination(tc)
         IN  /\ termination_conds' = v.conds
             /\ passed' = Append(passed, tc)
             /\ bound' = IF tc.given THEN [bound EXCEPT ![tc] = v.conds.scheduler] ELSE bound
             /\ err' = v.raises
             /\ counts_useable' = init_counts_useable(nodes)
             /\ counts_total' = reset_count(counts_total, "TRIAL")
             /\ times' = reset_time(times, "TRIAL")
             /\ pc' = IF v.raises = "none" THEN "trial_check" ELSE "idle"
    /\ condition_set' = validate_condition_set(condition_set)
    /\ runs' = runs + 1
    /\ list_at_start' = execution_list
    /\ yielded' = <<>>
    /\ returned' = <<>>
    /\ UNCHANGED <<input, counting, instance, first, nodes, consideration_queue,
                   iteration_order, execution_list, locals, abandoned>>

\* the first resumption of a generator, lines 427-445: validation and the
\* per-trial resets, for a termination_conds argument out of tcs
first_resumption(tcs) ==
    /\ runs < MaxRuns
    /\ \E tc \in tcs :
         LET v == validate_termination(tc)
         IN  /\ termination_conds' = v.conds
             /\ passed' = Append(passed, tc)
             /\ bound' = IF tc.given THEN [bound EXCEPT ![tc] = v.conds.scheduler] ELSE bound
             /\ err' = v.raises
             /\ IF v.raises = "none"
                THEN /\ counts_useable' = init_counts_useable(nodes)
                     /\ counts_total' = reset_count(counts_total, "TRIAL")
                     /\ times' = reset_time(times, "TRIAL")
                     /\ pc' = "trial_check"
                ELSE /\ UNCHANGED <<counts_useable, counts_total, times>>
                     /\ pc' = "idle"
    /\ condition_set' = validate_condition_set(condition_set)
    /\ runs' = runs + 1
    /\ list_at_start' = execution_list
    /\ yielded' = <<>>
    /\ returned' = <<>>
    /\ UNCHANGED <<input, counting, instance, first, nodes, consideration_queue,
                   iteration_order, execution_list, locals, abandoned>>

\* run() called, and the generator resumed, by a caller that holds no other
\* generator
RunStart ==
    /\ pc = "idle"
    /\ suspended = NoFrame
    /\ first_resumption(input.terms)
    /\ UNCHANGED suspended

\* line 447 with a termination_conds mapping that has no TRIAL entry
TrialKeyError ==
    /\ pc = "trial_check"
    /\ "TRIAL" \notin DOMAIN termination_conds.conds
    /\ pc' = "idle"
    /\ err' = "KeyError"
    /\ UNCHANGED <<input, counting, instances, scheduler, locals, caller>>

\* the pass begun without the test of the TRIAL termination Condition
PassStartUntested ==
    /\ pc = "trial_check"
    /\ "TRIAL" \in DOMAIN termination_conds.conds
    /\ counting = "exact" => times["TRIAL"]["PASS"] < MaxPass
    /\ counts_total' = reset_count(counts_total, "PASS")
    /\ times' = reset_time(times, "PASS")
    /\ execution_list_has_changed' = FALSE
    /\ cur_index_consideration_queue' = 0
    /\ pc' = "layer_check"
    /\ UNCHANGED <<input, counting, instances, err, nodes, consideration_queue, iteration_order,
                   condition_set, termination_conds, counts_useable, execution_list,
                   cur_time_step_exec, cur_consideration_set_has_changed, cur_position,
                   cur_scan,
                   caller>>

\* the pass begun without lowering execution_list_has_changed
PassStartFlagKept ==
    /\ pc = "trial_check"
    /\ "TRIAL" \in DOMAIN termination_conds.conds
    /\ ~trial_terminated
    /\ counting = "exact" => times["TRIAL"]["PASS"] < MaxPass
    /\ counts_total' = reset_count(counts_total, "PASS")
    /\ times' = reset_time(times, "PASS")
    /\ cur_index_consideration_queue' = 0
    /\ pc' = "layer_check"
    /\ UNCHANGED <<input, counting, instances, err, nodes, consideration_queue, iteration_order,
                   condition_set, termination_conds, counts_useable, execution_list,
                   execution_list_has_changed, cur_time_step_exec,
                   cur_consideration_set_has_changed, cur_position, cur_scan, caller>>

\* lines 447-452: the trial goes on, a pass begins
PassStart ==
    /\ pc = "trial_check"
    /\ "TRIAL" \in DOMAIN termination_conds.conds
    /\ ~trial_terminated
    /\ counting = "exact" => times["TRIAL"]["PASS"] < MaxPass
    /\ counts_total' = reset_count(counts_total, "PASS")
    /\ times' = reset_time(times, "PASS")
    /\ execution_list_has_changed' = FALSE
    /\ cur_index_consideration_queue' = 0
    /\ pc' = "layer_check"
    /\ UNCHANGED <<input, counting, instances, err, nodes, consideration_queue, iteration_order,
                   condition_set, termination_conds, counts_useable, execution_list,
                   cur_time_step_exec, cur_consideration_set_has_changed, cur_position,
                   cur_scan,
                   caller>>

\* lines 447, 530-532: the trial is over, the generator returns
RunReturn ==
    /\ pc = "trial_check"
    /\ "TRIAL" \in DOMAIN termination_conds.conds
    /\ trial_terminated
    /\ times' = increment_time(times, "TRIAL")
    /\ returned' = execution_list
    /\ pc' = "idle"
    /\ UNCHANGED <<input, counting, instances, err, nodes, consideration_queue, iteration_order,
                   condition_set, termination_conds, counts_total, counts_useable,
                   execution_list, locals, runs, passed, abandoned, suspended,
                   list_at_start, yielded>>

\* the test of the loop over the consideration queue, lines 454-457
in_layer_loop ==
    /\ cur_index_consideration_queue < Len(consideration_queue)
    /\ ~trial_terminated

cur_consideration_set == consideration_queue[cur_index_consideration_queue + 1]
cur_iteration == iteration_order[cur_index_consideration_queue + 1]

\* a consideration set taken up without a new, empty time step
LayerStartStepKept ==
    /\ pc = "layer_check"
    /\ in_layer_loop
    /\ IF cur_consideration_set.iterable
       THEN /\ pc' = "scan"
            /\ err' = err
       ELSE /\ pc' = "idle"
            /\ err' = "SchedulerError"
    /\ cur_consideration_set_has_changed' = FALSE
    /\ cur_position' = 1
    /\ cur_scan' = 1
    /\ UNCHANGED <<input, counting, instances, scheduler, execution_list_has_changed,
                   cur_index_consideration_queue, cur_time_step_exec, caller>>

\* lines 458-476: a consideration set is taken up
LayerStart ==
    /\ pc = "layer_check"
    /\ in_layer_loop
    /\ cur_time_step_exec' = {}
    /\ IF cur_consideration_set.iterable
       THEN /\ pc' = "scan"
            /\ err' = err
       ELSE /\ pc' = "idle"
            /\ err' = "SchedulerError"
    /\ cur_consideration_set_has_changed' = FALSE
    /\ cur_position' = 1
    /\ cur_scan' = 1
    /\ UNCHANGED <<input, counting, instances, scheduler, execution_list_has_changed,
                   cur_index_consideration_queue, caller>>

\* a node considered whether it is in the time step already or not
ConsiderInTimeStepToo ==
    /\ pc = "scan"
    /\ cur_position <= Len(cur_iteration)
    /\ LET current_node == cur_iteration[cur_position]
       IN  IF condition_set[current_node] = None
           THEN \* self.condition_set.conditions[current_node]
                /\ pc' = "idle"
                /\ err' = "KeyError"
                /\ UNCHANGED <<counts_total, counts_useable, cur_time_step_exec,
                               execution_list_has_changed,
                               cur_consideration_set_has_changed, cur_position>>
           ELSE IF ~is_satisfied(condition_set[current_node], current_node)
           THEN /\ cur_position' = cur_position + 1
                /\ UNCHANGED <<pc, err, counts_total, counts_useable, cur_time_step_exec,
                               execution_list_has_changed,
                               cur_consideration_set_has_changed>>
           ELSE /\ cur_time_step_exec' = cur_time_step_exec \cup {current_node}
                /\ execution_list_has_changed' = TRUE
                /\ cur_consideration_set_has_changed' = TRUE
                /\ IF current_node \in nodes
                   THEN /\ counts_total' = count_execution(counts_total, current_node)
                        /\ counts_useable' = update_counts_useable(counts_useable, current_node)
                        /\ cur_position' = cur_position + 1
                        /\ UNCHANGED <<pc, err>>
                   ELSE \* self.counts_total[ts][current_node]
                        /\ pc' = "idle"
                        /\ err' = "KeyError"
                        /\ UNCHANGED <<counts_total, counts_useable, cur_position>>
    /\ UNCHANGED <<input, counting, instances, nodes, consideration_queue, iteration_order,
                   condition_set, termination_conds, times, execution_list,
                   cur_index_consideration_queue, cur_scan, caller>>

\* lines 477-504: one node of the consideration set is considered
Consider ==
    /\ pc = "scan"
    /\ cur_position <= Len(cur_iteration)
    /\ LET current_node == cur_iteration[cur_position]
       IN  IF current_node \in cur_time_step_exec
           THEN /\ cur_position' = cur_position + 1
                /\ UNCHANGED <<pc, err, counts_total, counts_useable, cur_time_step_exec,
                               execution_list_has_changed,
                               cur_consideration_set_has_changed>>
           ELSE IF condition_set[current_node] = None
           THEN \* self.condition_set.conditions[current_node]
                /\ pc' = "idle"
                /\ err' = "KeyError"
                /\ UNCHANGED <<counts_total, counts_useable, cur_time_step_exec,
                               execution_list_has_changed,
                               cur_consideration_set_has_changed, cur_position>>
           ELSE IF ~is_satisfied(condition_set[current_node], current_node)
           THEN /\ cur_position' = cur_position + 1
                /\ UNCHANGED <<pc, err, counts_total, counts_useable, cur_time_step_exec,
                               execution_list_has_changed,
                               cur_consideration_set_has_changed>>
           ELSE /\ cur_time_step_exec' = cur_time_step_exec \cup {current_node}
                /\ execution_list_has_changed' = TRUE
                /\ cur_consideration_set_has_changed' = TRUE
                /\ IF current_node \in nodes
                   THEN /\ counts_total' = count_execution(counts_total, current_node)
                        /\ counts_useable' = update_counts_useable(counts_useable, current_node)
                        /\ cur_position' = cur_position + 1
                        /\ UNCHANGED <<pc, err>>
                   ELSE \* self.counts_total[ts][current_node]
                        /\ pc' = "idle"
                        /\ err' = "KeyError"
                        /\ UNCHANGED <<counts_total, counts_useable, cur_position>>
    /\ UNCHANGED <<input, counting, instances, nodes, consideration_queue, iteration_order,
                   condition_set, termination_conds, times, execution_list,
                   cur_index_consideration_queue, cur_scan, caller>>

scan_done == pc = "scan" /\ cur_position > Len(cur_iteration)

\* the loop over the consideration set when it is left after one scan
SingleScan ==
    /\ scan_done
    /\ cur_consideration_set_has_changed
    /\ cur_consideration_set_has_changed' = FALSE
    /\ UNCHANGED <<input, counting, instances, pc, err, scheduler, execution_list_has_changed,
                   cur_index_consideration_queue, cur_time_step_exec, cur_position,
                   cur_scan,
                   caller>>

\* lines 475-477, 506: the scan added a node, the set is scanned again
Rescan ==
    /\ scan_done
    /\ cur_consideration_set_has_changed
    /\ cur_consideration_set_has_changed' = FALSE
    /\ cur_position' = 1
    /\ cur_scan' = cur_scan + 1
    /\ UNCHANGED <<input, counting, instances, pc, err, scheduler, execution_list_has_changed,
                   cur_index_consideration_queue, cur_time_step_exec, caller>>

\* the time step recorded and yielded whether it is empty or not
YieldAnyStep ==
    /\ scan_done
    /\ ~cur_consideration_set_has_changed
    /\ execution_list' = Record(execution_list, cur_time_step_exec)
    /\ yielded' = Record(yielded, cur_time_step_exec)
    /\ pc' = "yield_step"
    /\ UNCHANGED <<input, counting, instances, err, nodes, consideration_queue, iteration_order,
                   condition_set, termination_conds, times, counts_total, counts_useable,
                   locals, runs, passed, abandoned, suspended,
                   list_at_start, returned>>

\* lines 506-512: the time step is not empty, it is recorded and yielded
YieldStep ==
    /\ scan_done
    /\ ~cur_consideration_set_has_changed
    /\ Cardinality(cur_time_step_exec) >= 1
    /\ execution_list' = Record(execution_list, cur_time_step_exec)
    /\ yielded' = Record(yielded, cur_time_step_exec)
    /\ pc' = "yield_step"
    /\ UNCHANGED <<input, counting, instances, err, nodes, consideration_queue, iteration_order,
                   condition_set, termination_conds, times, counts_total, counts_useable,
                   locals, runs, passed, abandoned, suspended,
                   list_at_start, returned>>

\* the generator resumed after a time step without counting it
ResumeStepUncounted ==
    /\ pc = "yield_step"
    /\ cur_index_consideration_queue' = cur_index_consideration_queue + 1
    /\ pc' = "layer_check"
    /\ UNCHANGED <<input, counting, instances, err, scheduler, execution_list_has_changed,
                   cur_time_step_exec, cur_consideration_set_has_changed, cur_position,
                   cur_scan, caller>>

\* lines 514-516: the generator is resumed after a time step
ResumeStep ==
    /\ pc = "yield_step"
    /\ times' = increment_time(times, "TIME_STEP")
    /\ cur_index_consideration_queue' = cur_index_consideration_queue + 1
    /\ pc' = "layer_check"
    /\ UNCHANGED <<input, counting, instances, err, nodes, consideration_queue, iteration_order,
                   condition_set, termination_conds, counts_total, counts_useable,
                   execution_list, execution_list_has_changed, cur_time_step_exec,
                   cur_consideration_set_has_changed, cur_position, cur_scan, caller>>

\* lines 506-516: the time step is empty, the next consideration set is due
SkipLayer ==
    /\ scan_done
    /\ ~cur_consideration_set_has_changed
    /\ Cardinality(cur_time_step_exec) = 0
    /\ cur_index_consideration_queue' = cur_index_consideration_queue + 1
    /\ pc' = "layer_check"
    /\ UNCHANGED <<input, counting, instances, err, scheduler, execution_list_has_changed,
                   cur_time_step_exec, cur_consideration_set_has_changed, cur_position,
                   cur_scan,
                   caller>>

\* the empty time step yielded without being recorded
YieldEmptyUnrecorded ==
    /\ pc = "layer_check"
    /\ ~in_layer_loop
    /\ ~execution_list_has_changed
    /\ yielded' = Record(yielded, {})
    /\ pc' = "yield_empty"
    /\ UNCHANGED <<input, counting, instances, err, scheduler, locals, runs, passed, abandoned, suspended,
                   list_at_start, returned>>

\* lines 519-521: nothing ran in the pass, an empty time step is yielded
YieldEmpty ==
    /\ pc = "layer_check"
    /\ ~in_layer_loop
    /\ ~execution_list_has_changed
    /\ execution_list' = Record(execution_list, {})
    /\ yielded' = Record(yielded, {})
    /\ pc' = "yield_empty"
    /\ UNCHANGED <<input, counting, instances, err, nodes, consideration_queue, iteration_order,
                   condition_set, termination_conds, times, counts_total, counts_useable,
                   locals, runs, passed, abandoned, suspended,
                   list_at_start, returned>>

\* lines 523-528: the generator is resumed after the empty time step
ResumeEmpty ==
    /\ pc = "yield_empty"
    /\ times' = increment_time(increment_time(times, "TIME_STEP"), "PASS")
    /\ pc' = "trial_check"
    /\ UNCHANGED <<input, counting, instances, err, nodes, consideration_queue, iteration_order,
                   condition_set, termination_conds, counts_total, counts_useable,
                   execution_list, locals, caller>>

\* the end of a pass without the PASS tick
PassEndWithoutTick ==
    /\ pc = "layer_check"
    /\ ~in_layer_loop
    /\ execution_list_has_changed
    /\ pc' = "trial_check"
    /\ UNCHANGED <<input, counting, instances, err, scheduler, locals, caller>>

\* the end of the pass when the PASS tick also resets the counters of the pass
PassEndResetting ==
    /\ pc = "layer_check"
    /\ ~in_layer_loop
    /\ execution_list_has_changed
    /\ times' = reset_time(increment_time(times, "PASS"), "PASS")
    /\ counts_total' = reset_count(counts_total, "PASS")
    /\ pc' = "trial_check"
    /\ UNCHANGED <<input, counting, instances, err, nodes, consideration_queue, iteration_order,
                   condition_set, termination_conds, counts_useable,
                   execution_list, locals, caller>>

\* lines 519, 528: the pass ends
PassEnd ==
    /\ pc = "layer_check"
    /\ ~in_layer_loop
    /\ execution_list_has_changed
    /\ times' = increment_time(times, "PASS")
    /\ pc' = "trial_check"
    /\ UNCHANGED <<input, counting, instances, err, nodes, consideration_queue, iteration_order,
                   condition_set, termination_conds, counts_total, counts_useable,
                   execution_list, locals, caller>>

\* a second Scheduler is made from the same arguments when a run of the
\* first has ended; from here on the model follows the second, and keeps the
\* counters of the first as they are
ConstructSecond ==
    /\ pc = "idle"
    /\ instance = 1
    /\ runs >= 1
    /\ instance' = 2
    /\ first' = CountersOf(times, counts_total, counts_useable, execution_list)
    /\ LET new == init(input.system, input.nodes, input.toposort_ordering)
       IN  /\ pc' = "constructed"
           /\ err' = "none"
           /\ nodes' = new.nodes
           /\ consideration_queue' = new.queue
           /\ iteration_order' \in IterationOrders(new.queue)
           /\ times' = init_times
           /\ counts_total' = init_counts_total(new.nodes)
           /\ counts_useable' = init_counts_useable(new.nodes)
    /\ condition_set' = NoConditions
    /\ termination_conds' = NoTerm
    /\ execution_list' = <<>>
    /\ runs' = 0
    /\ passed' = <<>>
    /\ abandoned' = 0
    /\ suspended' = NoFrame
    /\ list_at_start' = <<>>
    /\ yielded' = <<>>
    /\ returned' = <<>>
    /\ UNCHANGED <<input, counting, bound, locals>>

\* the caller drops a generator that is suspended at a yield: nothing of
\* run() is executed any more
Abandon ==
    /\ pc \in {"yield_step", "yield_empty"}
    /\ pc' = "idle"
    /\ abandoned' = abandoned + 1
    /\ UNCHANGED <<input, counting, instances, err, scheduler, locals, runs, passed,
                   suspended, list_at_start, yielded, returned>>

\* a termination_conds argument with which a run can go on: none, or one with
\* a Condition for TRIAL
WithTrial(tc) == ~tc.given \/ ("TRIAL" \in DOMAIN tc.conds /\ tc.conds["TRIAL"] # None)

\* while a generator is suspended at a yield, the caller calls run() again
\* and resumes the new generator for the first time
Reenter ==
    /\ pc \in {"yield_step", "yield_empty"}
    /\ suspended = NoFrame
    /\ first_resumption({tc \in input.terms : WithTrial(tc)})
    /\ suspended' = Frame(runs, pc, err, execution_list_has_changed,
                          cur_index_consideration_queue, cur_time_step_exec,
                          cur_consideration_set_has_changed, cur_position, cur_scan,
                          list_at_start, yielded, returned)

\* the caller turns from the generator it resumed last, which is suspended at
\* a yield or has ended, to the one it holds
SwitchGenerator ==
    /\ pc \in {"yield_step", "yield_empty", "idle"}
    /\ suspended # NoFrame
    /\ suspended.pc # "idle"
    /\ suspended' = Frame(IF suspended.run = runs THEN runs - 1 ELSE runs, pc, err,
                          execution_list_has_changed,
                          cur_index_consideration_queue, cur_time_step_exec,
                          cur_consideration_set_has_changed, cur_position, cur_scan,
                          list_at_start, yielded, returned)
    /\ pc' = suspended.pc
    /\ err' = suspended.err
    /\ execution_list_has_changed' = suspended.execution_list_has_changed
    /\ cur_index_consideration_queue' = suspended.cur_index_consideration_queue
    /\ cur_time_step_exec' = suspended.cur_time_step_exec
    /\ cur_consideration_set_has_changed' = suspended.cur_consideration_set_has_changed
    /\ cur_position' = suspended.cur_position
    /\ cur_scan' = suspended.cur_scan
    /\ list_at_start' = suspended.list_at_start
    /\ yielded' = suspended.yielded
    /\ returned' = suspended.returned
    /\ UNCHANGED <<input, counting, instances, scheduler, runs, passed, abandoned>>

Next ==
    \/ Construct
    \/ add_condition_set
    \/ RunStart
    \/ TrialKeyError
    \/ PassStart
    \/ RunReturn
    \/ LayerStart
    \/ Consider
    \/ Rescan
    \/ YieldStep
    \/ ResumeStep
    \/ SkipLayer
    \/ YieldEmpty
    \/ ResumeEmpty
    \/ PassEnd

Spec == Init /\ [][Next]_vars

\* a step of a generator that has been started: the generator's own, or the
\* caller resuming it
GeneratorStep ==
    \/ TrialKeyError
    \/ PassStart
    \/ RunReturn
    \/ LayerStart
    \/ Consider
    \/ Rescan
    \/ YieldStep
    \/ ResumeStep
    \/ SkipLayer
    \/ YieldEmpty
    \/ ResumeEmpty
    \/ PassEnd

(***************************************************************************)
(* The counters of time on their own: _increment_time and _reset_time      *)
(* called with every time scale, in any order, on a constructed Scheduler. *)
(***************************************************************************)
\* the tables of times at most k calls away from the table of _init_counts
RECURSIVE TablesWithin(_)
TablesWithin(k) ==
    IF k = 0 THEN {init_times}
    ELSE LET before == TablesWithin(k - 1)
         IN  before
               \cup {increment_time(t, ts) : t \in before, ts \in TimeScale}
               \cup {reset_time(t, ts) : t \in before, ts \in TimeScale}

IncrementTime(time_scale) ==
    /\ pc = "constructed"
    /\ times \in TablesWithin(MaxCalls)
    /\ times' = increment_time(times, time_scale)
    /\ UNCHANGED <<input, counting, instances, pc, err, nodes, consideration_queue, iteration_order,
                   condition_set, termination_conds, counts_total, counts_useable,
                   execution_list, locals, caller>>

ResetTime(time_scale) ==
    /\ pc = "constructed"
    /\ times \in TablesWithin(MaxCalls)
    /\ times' = reset_time(times, time_scale)
    /\ UNCHANGED <<input, counting, instances, pc, err, nodes, consideration_queue, iteration_order,
                   condition_set, termination_conds, counts_total, counts_useable,
                   execution_list, locals, caller>>

TimeInit == Start({EmptyInput}, "exact")
TimeNext ==
    \/ Construct
    \/ \E time_scale \in TimeScale : IncrementTime(time_scale)
    \/ \E time_scale \in TimeScale : ResetTime(time_scale)
TimeSpec == TimeInit /\ [][TimeNext]_vars

(***************************************************************************)
(* Two Schedulers of one caller, which may pass the termination_conds      *)
(* mapping it gave to a run of the first to a run of the second.           *)
(***************************************************************************)
PairInputs == TerminationInputs \cup {AlternateInput, NeverInput}
PairInit == Start(PairInputs, "exact")
PairNext == Next \/ ConstructSecond
PairSpec == PairInit /\ [][PairNext]_vars

(***************************************************************************)
(* A caller that may drop a generator at a yield, and may hold two         *)
(* generators of one Scheduler and resume them in turn.                    *)
(***************************************************************************)
CallerInputs ==
    TerminationInputs \cup {AlternateInput, UnconnectedInput, NeverInput, EmptyInput}
CallerInit == Start(CallerInputs, "exact")
CallerNext == Next \/ Abandon \/ Reenter \/ SwitchGenerator
CallerSpec == CallerInit /\ [][CallerNext]_vars

\* The caller drains every generator it starts: no step of a started
\* generator is put off for ever.  Counters saturate, so that a trial without
\* end is a cycle.
FairInit == Start(FairInputs, "saturating")
FairSpec == FairInit /\ [][Next]_vars /\ WF_vars(GeneratorStep)

(***************************************************************************)
(* Properties.                                                             *)
(***************************************************************************)
IsPrefix(s, t) == Len(s) <= Len(t) /\ \A i \in 1..Len(s) : s[i] = t[i]
\* a generator has been started and has ended without raising
Drained == pc = "idle" /\ runs >= 1 /\ err = "none"
Started == runs >= 1

LinearExpected ==
    <<{"A"}, {"A"}, {"B"}, {"A"}, {"A"}, {"B"}, {"A"}, {"A"}, {"B"}, {"C"}>>

\* C1: with the linear process A -> B -> C, B under EveryNCalls(A, 2), C under
\* EveryNCalls(B, 3) and no termination_conds, a run yields the time steps
\* A, A, B, A, A, B, A, A, B, C in that order and nothing else: what has been
\* yielded is always a prefix of that sequence, and all of it once the
\* generator has ended.
C1_LinearPhasing ==
    (input = LinearInput /\ Started) =>
        /\ IsPrefix(yielded, LinearExpected)
        /\ pc = "idle" => (err = "none" /\ yielded = LinearExpected)

C1_Witness == input = LinearInput /\ Drained /\ yielded = LinearExpected

TwoProcessExpected ==
    <<{"A"}, {"A", "B"}, {"A"}, {"C"}, {"A", "B"}, {"C"}, {"A"}, {"C"}, {"A", "B"}, {"C"}>>

\* C2: with the two processes A -> C and B -> C, A under EveryNPasses(1), B
\* under EveryNCalls(A, 2), C under Any(AfterNCalls(A, 3), AfterNCalls(B, 3))
\* and the trial ended by AfterNCalls(C, 4), a run yields the time steps
\* A, {A,B}, A, C, {A,B}, C, A, C, {A,B}, C in that order and nothing else.
C2_TwoProcessPhasing ==
    (input = TwoProcessInput /\ Started) =>
        /\ IsPrefix(yielded, TwoProcessExpected)
        /\ pc = "idle" => (err = "none" /\ yielded = TwoProcessExpected)

C2_Witness == input = TwoProcessInput /\ Drained /\ yielded = TwoProcessExpected

AlternateExpected == <<{"A"}, {"B"}, {"B"}, {"A"}, {"B"}, {"B"}>>

\* C3: with the pathway A -> B, A under Any(AtPass(0), EveryNCalls(B, 2)), B
\* under Any(EveryNCalls(A, 1), EveryNCalls(B, 1)) and the trial ended by
\* AfterNCalls(B, 4), a run yields the time steps A, B, B, A, B, B in that
\* order and nothing else.
C3_AlternatePhasing ==
    (input = AlternateInput /\ Started) =>
        /\ IsPrefix(yielded, AlternateExpected)
        /\ pc = "idle" => (err = "none" /\ yielded = AlternateExpected)

C3_Witness == input = AlternateInput /\ Drained /\ yielded = AlternateExpected

\* C4 as stated: with A and B in one consideration set under the Conditions
\* of C3, a drained run has yielded the single-node time steps A, B, B, A, B, B.
C4_UnconnectedAsStated ==
    (input = UnconnectedInput /\ Drained) => yielded = AlternateExpected

UnconnectedExpected == <<{"A", "B"}, {"A", "B"}, {"B"}, {"A", "B"}>>

\* C4 as amended: with A and B in one consideration set under the Conditions
\* of C3, a run yields the time steps {A,B}, {A,B}, {B}, {A,B} in that order
\* and nothing else, whatever the order in which the set is iterated.
C4_UnconnectedPhasing ==
    (input = UnconnectedInput /\ Started) =>
        /\ IsPrefix(yielded, UnconnectedExpected)
        /\ pc = "idle" => (err = "none" /\ yielded = UnconnectedExpected)

C4_Witness == input = UnconnectedInput /\ Drained /\ yielded = UnconnectedExpected

(***************************************************************************)
(* The dependency graph.                                                   *)
(***************************************************************************)
Predecessors(g, n) == IF n \in DOMAIN g THEN g[n] ELSE {}
RECURSIVE AncestorsWithin(_, _, _)
AncestorsWithin(g, S, k) ==
    IF k = 0 THEN S
    ELSE AncestorsWithin(g, S \cup UNION {Predecessors(g, n) : n \in S}, k - 1)
Ancestors(g, n) == AncestorsWithin(g, Predecessors(g, n), Cardinality(Node))
Acyclic(g) == \A n \in GraphNodes(g) : n \notin Ancestors(g, n)
LayersOf(n) == {i \in 1..Len(consideration_queue) : n \in consideration_queue[i].elems}
Constructed == pc \notin {"new", "failed"}

\* C5: the consideration queue built from an acyclic dependency graph holds
\* every node of the graph in exactly one layer, every node in a later layer
\* than each of its predecessors, and in its first layer exactly the nodes
\* without predecessors.
C5_QueueIsLayering ==
    LET g == input.system.executionGraph
    IN  (input.system.given /\ Acyclic(g) /\ pc # "new") =>
            /\ pc # "failed"
            /\ \A n \in GraphNodes(g) : Cardinality(LayersOf(n)) = 1
            /\ \A v \in GraphNodes(g) : \A u \in Predecessors(g, v) :
                  \A i \in LayersOf(u) : \A j \in LayersOf(v) : i < j
            /\ GraphNodes(g) # {} =>
                  /\ Len(consideration_queue) >= 1
                  /\ consideration_queue[1].elems =
                        {n \in GraphNodes(g) : Predecessors(g, n) = {}}

C5_Witness ==
    /\ input.system.given
    /\ Acyclic(input.system.executionGraph)
    /\ Constructed
    /\ Len(consideration_queue) = 3
    /\ \E n \in Node : Cardinality(Predecessors(input.system.executionGraph, n)) = 2

\* C6: a Scheduler is never constructed from a dependency graph with a
\* cycle: the constructor raises the cycle error.
C6_CycleFailsConstruction ==
    (input.system.given /\ ~Acyclic(input.system.executionGraph) /\ pc # "new") =>
        (pc = "failed" /\ err = "CircularDependencyError")

\* C7 as stated: once a generator is drained, execution_list is the sequence
\* of sets that generator yielded, and is its return value.
C7_ListIsYieldsOfRun ==
    Drained => (execution_list = yielded /\ returned = execution_list)

\* C7 as amended: execution_list is at every moment of a run what it was
\* when the generator started followed by the sets the generator has yielded
\* so far, and the drained generator returns it.
C7_ListIsHistoryPlusYields ==
    Started =>
        /\ execution_list = list_at_start \o yielded
        /\ Drained => returned = execution_list

C7_Witness ==
    /\ Drained
    /\ runs = 2
    /\ list_at_start # <<>>
    /\ yielded # <<>>
    /\ \E i \in 1..Len(yielded) : yielded[i] = {}

\* the step adds node n to the time step
Fires(n) ==
    /\ pc = "scan"
    /\ pc' = "scan"
    /\ n \notin cur_time_step_exec
    /\ n \in cur_time_step_exec'

\* C8 as stated: when node n is selected to fire, counts_useable[n][m] is 0
\* afterwards for every node m, and counts_useable[m][n] is one more than
\* before for every other node m.
C8_UseableAsStated ==
    [][\A n \in Node : Fires(n) =>
          /\ \A m \in nodes : counts_useable'[n][m] = 0
          /\ \A m \in nodes \ {n} : counts_useable'[m][n] = counts_useable[m][n] + 1]_vars

\* C8 as amended: when node n is selected to fire, counts_useable[m][n] is 0
\* afterwards for every other node m, counts_useable[n][n] is 1, and
\* counts_useable[n][m] is one more than before for every other node m.
C8_UseableResetAndIncrement ==
    [][\A n \in Node : Fires(n) =>
          /\ \A m \in nodes \ {n} : counts_useable'[m][n] = 0
          /\ counts_useable'[n][n] = 1
          /\ \A m \in nodes \ {n} : counts_useable'[n][m] = counts_useable[n][m] + 1]_vars

C8_Witness ==
    /\ pc = "scan"
    /\ \E n \in cur_time_step_exec : \E m \in nodes \ {n} :
          /\ counts_useable[n][n] = 1
          /\ counts_useable[m][n] = 0
          /\ counts_useable[n][m] >= 2
          /\ counts_useable[m][m] >= 1

\* the step begins a new period of time scale S: the trial at the start of
\* a run, the pass at the top of the trial loop, the time step when the
\* generator is resumed after a yield
BeginsPeriod(S) ==
    CASE S = "TRIAL" -> pc = "idle" /\ pc' = "trial_check"
      [] S = "PASS" -> pc = "trial_check" /\ pc' = "layer_check"
      [] S = "TIME_STEP" -> pc \in {"yield_step", "yield_empty"} /\ pc' # pc
      [] OTHER -> FALSE

\* C9: counts_total[S][n] never decreases within a period of S and is 0
\* whenever a new period of S has just begun.
C9_CountsFollowPeriods ==
    [][\A S \in TimeScale : \A n \in nodes :
          /\ BeginsPeriod(S) => counts_total'[S][n] = 0
          /\ ~BeginsPeriod(S) => counts_total'[S][n] >= counts_total[S][n]]_vars

Running == pc \in {"trial_check", "layer_check", "scan", "yield_step", "yield_empty"}
AllAlways == \A n \in nodes : condition_set[n] = Always
DefaultTermination == termination_conds.conds = [ts \in TimeScale |-> AllHaveRun]
AllHaveFired == \A n \in nodes : counts_total["TRIAL"][n] >= 1
\* every element of the queue is a set of nodes, and every node is in one
QueueCoversNodes ==
    /\ \A i \in 1..Len(consideration_queue) :
          consideration_queue[i].iterable /\ consideration_queue[i].elems \subseteq nodes
    /\ nodes \subseteq UNION {consideration_queue[i].elems : i \in 1..Len(consideration_queue)}

\* C10 as stated: whatever Scheduler the constructor has accepted, a run
\* under Always for every node and the default termination ends, every node
\* having fired in the trial.
C10_AlwaysRunEnds ==
    (Running /\ AllAlways /\ DefaultTermination) ~> (Drained /\ AllHaveFired)

\* C10 as amended: a run under Always for every node and the default
\* termination ends, every node having fired in the trial, when every element
\* of the consideration queue is a set of nodes of the Scheduler and every
\* node of the Scheduler is in one of them (as in a queue built from a graph).
C10_AlwaysRunOverAllNodesEnds ==
    (Running /\ AllAlways /\ DefaultTermination /\ QueueCoversNodes)
        ~> (Drained /\ AllHaveFired)

C10_Witness ==
    /\ input.nodes.given
    /\ ~input.system.given
    /\ Len(consideration_queue) = 2
    /\ AllAlways /\ DefaultTermination /\ QueueCoversNodes
    /\ Drained /\ AllHaveFired
    /\ Len(yielded) = 2

(***************************************************************************)
(* The empty time step.                                                    *)
(***************************************************************************)
\* the step ends a pass: the loop over the consideration queue is left
EndsPass == pc = "layer_check" /\ pc' \in {"yield_empty", "trial_check"}
\* the step appends an empty set to execution_list and yields it
YieldsEmptySet ==
    /\ pc' = "yield_empty"
    /\ execution_list' = Append(execution_list, {})
    /\ yielded' = Append(yielded, {})
NoFiringInRun == \A n \in nodes : counts_total["TRIAL"][n] = 0
NoFiringInPass == \A n \in nodes : counts_total["PASS"][n] = 0

\* C11 as stated: when the layers of a pass have been considered, an empty
\* set is appended to execution_list and yielded if and only if no node has
\* fired since the run() call began.
C11_EmptyStepIffNoFiringInRun ==
    [][EndsPass => (YieldsEmptySet <=> NoFiringInRun)]_vars

\* C11 as amended: when the layers of a pass have been considered, an empty
\* set is appended to execution_list and yielded if and only if no node has
\* fired in that pass, whatever fired in the earlier passes of the run.
C11_EmptyStepIffNoFiringInPass ==
    [][EndsPass => (YieldsEmptySet <=> NoFiringInPass)]_vars

\* an empty time step has been yielded in a run in which a node has fired
C11_Witness ==
    /\ pc = "yield_empty"
    /\ NoFiringInPass
    /\ ~NoFiringInRun
    /\ yielded[Len(yielded)] = {}
    /\ \E i \in 1..Len(yielded) : yielded[i] # {}

\* a pass of the run has ended and the next has not begun
PassJustEnded == pc = "trial_check" /\ times["TRIAL"]["PASS"] >= 1
\* the time steps the generator has yielded in the pass
StepsOfPass ==
    SubSeq(yielded, Len(yielded) - times["PASS"]["TIME_STEP"] + 1, Len(yielded))

\* C12: a pass in which no node fires yields exactly one time step, the
\* empty set; a pass in which a node fires yields no empty time step; every
\* pass yields at least one time step; and with a single node whose Condition
\* is never satisfied every time step of the trial is empty, one per pass.
C12_OneEmptyStepPerIdlePass ==
    /\ PassJustEnded =>
          /\ times["PASS"]["TIME_STEP"] >= 1
          /\ times["PASS"]["TIME_STEP"] <= Len(yielded)
          /\ NoFiringInPass => StepsOfPass = <<{}>>
          /\ ~NoFiringInPass => \A i \in 1..Len(StepsOfPass) : StepsOfPass[i] # {}
    /\ (input = NeverInput /\ Started) =>
          /\ \A i \in 1..Len(yielded) : yielded[i] = {}
          /\ Len(yielded) = times["TRIAL"]["PASS"] + (IF pc = "yield_empty" THEN 1 ELSE 0)

C12_Witness ==
    /\ input = NeverInput
    /\ Drained
    /\ times["TRIAL"]["PASS"] = 3
    /\ yielded = <<{}, {}, {}>>

(***************************************************************************)
(* The empty consideration queue.                                          *)
(***************************************************************************)
\* a run that begins no pass, yields nothing and records nothing
EndsBeforeFirstPass ==
    /\ pc \in {"trial_check", "idle"}
    /\ err = "none"
    /\ yielded = <<>>
    /\ execution_list = list_at_start

\* C13 as stated: with an empty consideration queue and no termination_conds,
\* a run finds the trial over before the first pass: it yields nothing and
\* appends nothing to execution_list.
C13_EmptyQueueEndsAtOnce ==
    (Started /\ Len(consideration_queue) = 0 /\ DefaultTermination) => EndsBeforeFirstPass

\* C13 as amended: with an empty consideration queue, no nodes and no
\* termination_conds, a run finds the trial over before the first pass: it
\* yields nothing and appends nothing to execution_list.
C13_EmptySchedulerEndsAtOnce ==
    (Started /\ Len(consideration_queue) = 0 /\ nodes = {} /\ DefaultTermination)
        => EndsBeforeFirstPass

C13_Witness ==
    /\ Drained
    /\ runs = 2
    /\ Len(consideration_queue) = 0
    /\ nodes = {}
    /\ DefaultTermination
    /\ times["LIFE"]["TRIAL"] = 2
    /\ returned = <<>>

(***************************************************************************)
(* The table of times.                                                     *)
(***************************************************************************)
InPass == pc \in {"layer_check", "scan", "yield_step", "yield_empty"}
AtYield == pc \in {"yield_step", "yield_empty"}

\* C14 as stated: times[S][S] is 0 for every time scale S in every state of
\* a Scheduler.
C14_NoScaleCountsItself ==
    Constructed => \A S \in TimeScale : times[S][S] = 0

\* C14 as amended: times[S][S] is 0 after construction and after S is reset,
\* and is incremented with every tick of S: times[TIME_STEP][TIME_STEP] is the
\* number of time steps completed since construction, times[PASS][PASS] is 0
\* during a pass and at most 1, times[TRIAL][TRIAL] is 0 during a run and at
\* most 1, times[RUN][RUN] and times[LIFE][LIFE] are 0.
C14_ScaleCountsItsOwnTicks ==
    Constructed =>
        /\ times["TIME_STEP"]["TIME_STEP"] = Len(execution_list) - (IF AtYield THEN 1 ELSE 0)
        /\ times["PASS"]["PASS"] \in {0, 1}
        /\ InPass => times["PASS"]["PASS"] = 0
        /\ times["TRIAL"]["TRIAL"] \in {0, 1}
        /\ Running => times["TRIAL"]["TRIAL"] = 0
        /\ times["RUN"]["RUN"] = 0
        /\ times["LIFE"]["LIFE"] = 0
        /\ pc = "constructed" => \A S \in TimeScale : times[S][S] = 0

C14_Witness ==
    /\ Drained
    /\ runs = 2
    /\ times["TIME_STEP"]["TIME_STEP"] >= 3
    /\ times["PASS"]["PASS"] = 1
    /\ times["TRIAL"]["TRIAL"] = 1

\* C15 as stated: incrementing time scale `scale` adds 1 to times[O][scale]
\* for every O that is `scale` or coarser, and changes no other entry.
C15_IncrementWithinCoarser ==
    [][\A scale \in TimeScale : IncrementTime(scale) =>
          \A O \in TimeScale : \A I \in TimeScale :
              times'[O][I] = times[O][I]
                  + (IF I = scale /\ Rank(O) >= Rank(scale) THEN 1 ELSE 0)]_vars

\* C15 as amended: incrementing time scale `scale` adds 1 to times[O][scale]
\* for every time scale O, the finer ones included, and changes no
\* times[O][I] with I other than `scale`.
C15_IncrementWithinEveryScale ==
    [][\A scale \in TimeScale : IncrementTime(scale) =>
          \A O \in TimeScale : \A I \in TimeScale :
              times'[O][I] = times[O][I] + (IF I = scale THEN 1 ELSE 0)]_vars

\* PASS has been incremented: the count of PASS within the finer TIME_STEP
\* has grown with the others, no other count has
C15_Witness ==
    /\ pc = "constructed"
    /\ \A O \in TimeScale : times[O]["PASS"] = 2
    /\ \A O \in TimeScale : \A I \in TimeScale \ {"PASS"} : times[O][I] = 0

\* C16 as stated: resetting time scale S sets times[S][I] to 0 for every I
\* at or finer than S and changes no other entry, times[S][I] for I coarser
\* than S included.
C16_ResetOfFiner ==
    [][\A S \in TimeScale : ResetTime(S) =>
          \A O \in TimeScale : \A I \in TimeScale :
              times'[O][I] = IF O = S /\ Rank(I) <= Rank(S) THEN 0 ELSE times[O][I]]_vars

\* C16 as amended: resetting time scale S sets times[S][I] to 0 for every
\* time scale I, the coarser ones included, and changes no times[O][I] with
\* O other than S.
C16_ResetOfEveryScale ==
    [][\A S \in TimeScale : ResetTime(S) =>
          \A O \in TimeScale : \A I \in TimeScale :
              times'[O][I] = IF O = S THEN 0 ELSE times[O][I]]_vars

\* TRIAL has been incremented and PASS reset after it: the count of the
\* coarser TRIAL within PASS is 0 again, the counts within the other scales
\* are not
C16_Witness ==
    /\ pc = "constructed"
    /\ \A I \in TimeScale : times["PASS"][I] = 0
    /\ \A O \in TimeScale \ {"PASS"} : times[O]["TRIAL"] = 1

(***************************************************************************)
(* Construction.                                                           *)
(***************************************************************************)
\* the layers toposort gives for the graph of the system, as sets of nodes
SystemQueue ==
    LET sorted == toposort(input.system.executionGraph)
    IN  [i \in 1..Len(sorted.layers) |-> Layer(sorted.layers[i])]

\* C17: construction fails with SchedulerError when neither a system nor a
\* nodes list is given and when, no system being given, a nodes list is given
\* without a toposort_ordering; it raises no SchedulerError when a system is
\* given; when it succeeds nodes and the consideration queue come from the
\* system if one is given, whatever else is given, and from the nodes list
\* and the ordering otherwise; and every entry of times, counts_total and
\* counts_useable of the new Scheduler is 0.
C17_ConstructionSourcesAndCounters ==
    /\ (pc \in {"constructed", "failed"} /\ input.system.given) => err # "SchedulerError"
    /\ (pc # "new" /\ ~input.system.given /\ ~input.nodes.given)
          => (pc = "failed" /\ err = "SchedulerError")
    /\ (pc # "new" /\ ~input.system.given /\ input.nodes.given
            /\ ~input.toposort_ordering.given)
          => (pc = "failed" /\ err = "SchedulerError")
    /\ Constructed =>
          IF input.system.given
          THEN nodes = input.system.executionList /\ consideration_queue = SystemQueue
          ELSE /\ input.nodes.given /\ input.toposort_ordering.given
               /\ nodes = input.nodes.list
               /\ consideration_queue = input.toposort_ordering.layers
    /\ pc = "constructed" =>
          /\ err = "none"
          /\ \A O \in TimeScale : \A I \in TimeScale : times[O][I] = 0
          /\ \A ts \in TimeScale :
                DOMAIN counts_total[ts] = nodes /\ \A n \in nodes : counts_total[ts][n] = 0
          /\ DOMAIN counts_useable = nodes
          /\ \A n \in nodes :
                DOMAIN counts_useable[n] = nodes /\ \A m \in nodes : counts_useable[n][m] = 0

\* a Scheduler constructed from a system although a nodes list and an
\* ordering were given as well
C17_Witness ==
    /\ pc = "constructed"
    /\ input.system.given /\ input.nodes.given /\ input.toposort_ordering.given
    /\ nodes = {"A", "B"}
    /\ nodes # input.nodes.list
    /\ consideration_queue = <<Layer({"A"}), Layer({"B"})>>
    /\ consideration_queue # input.toposort_ordering.layers

(***************************************************************************)
(* Validation at the start of run().                                       *)
(***************************************************************************)
\* the step is the first resumption of a generator
StartsRun == pc = "idle" /\ runs' = runs + 1
\* the Condition the caller registered for n, None if it registered none
Registered(n) == input.conditions[n]
TrialUnset(tc) == "TRIAL" \in DOMAIN tc.conds /\ tc.conds["TRIAL"] = None

\* C18: from the start of the first run on, every node of the Scheduler
\* without a registered Condition has Always, every node with a registered
\* Condition has that Condition, so that every node in nodes has an entry; and
\* the start of a run raises nothing on account of the missing Conditions: it
\* goes on to the trial loop unless the TRIAL termination Condition is unset.
C18_MissingConditionsBecomeAlways ==
    /\ [](Started =>
            \A n \in nodes :
                /\ condition_set[n] # None
                /\ condition_set[n] = IF Registered(n) = None THEN Always ELSE Registered(n))
    /\ [][StartsRun =>
            (~TrialUnset(termination_conds') => (err' = "none" /\ pc' = "trial_check"))]_vars

C18_Witness ==
    /\ Drained
    /\ yielded # <<>>
    /\ \E n \in nodes : Registered(n) = None /\ condition_set[n] = Always
    /\ \E n \in nodes : Registered(n) # None /\ condition_set[n] = Registered(n)

TrialAbsent(tc) == "TRIAL" \notin DOMAIN tc.conds
\* the mapping _validate_termination builds when run() is given none
DefaultedTermination(tc) == tc.conds = [ts \in TimeScale |-> AllHaveRun]

\* C19: a run given no termination_conds gets AllHaveRun for every time scale
\* and goes on; a run given a mapping whose TRIAL entry is None or absent
\* fails at its start with SchedulerError, no counter having been reset and
\* nothing having been yielded.
C19_TrialTerminationRequired ==
    [][StartsRun =>
          /\ DefaultedTermination(termination_conds') =>
                (err' = "none" /\ pc' = "trial_check")
          /\ (TrialUnset(termination_conds') \/ TrialAbsent(termination_conds')) =>
                /\ err' = "SchedulerError"
                /\ pc' = "idle"
                /\ UNCHANGED <<times, counts_total, counts_useable, execution_list>>]_vars

(***************************************************************************)
(* A toposort_ordering with an element that is not iterable.               *)
(***************************************************************************)
FromOrdering == ~input.system.given /\ input.nodes.given /\ input.toposort_ordering.given
MalformedOrdering ==
    /\ FromOrdering
    /\ \E i \in 1..Len(input.toposort_ordering.layers) :
          ~input.toposort_ordering.layers[i].iterable

\* C20 as stated: an ordering with an element that is not iterable is
\* reported at construction or at the start of run(): no run on it yields a
\* time step or updates the counters of a node.
C20_MalformedQueueFailsAtStart ==
    (MalformedOrdering /\ pc # "new") =>
        \/ pc = "failed"
        \/ /\ yielded = <<>>
           /\ execution_list = <<>>
           /\ NoFiringInRun
           /\ Started => (pc = "idle" /\ err = "SchedulerError")

\* C20 as amended: the constructor accepts every toposort_ordering given with
\* a nodes list, the start of a run raises nothing on its account, and the
\* SchedulerError for an element that is not iterable is raised when the
\* loop over the consideration queue reaches that element, whatever the
\* earlier elements have fired and yielded in the run; that step changes no
\* counter and yields nothing.
C20_MalformedLayerFailsWhenReached ==
    [][/\ (pc = "new" /\ FromOrdering) => (pc' = "constructed" /\ err' = "none")
       /\ (StartsRun /\ FromOrdering /\ ~TrialUnset(termination_conds')) =>
             (pc' = "trial_check" /\ err' = "none")
       /\ (pc = "layer_check" /\ in_layer_loop /\ pc' # pc) =>
             IF cur_consideration_set.iterable
             THEN pc' = "scan" /\ err' = err
             ELSE /\ pc' = "idle"
                  /\ err' = "SchedulerError"
                  /\ UNCHANGED <<times, counts_total, counts_useable, execution_list,
                                 yielded>>]_vars

\* the error raised from the loop over the queue after an earlier element
\* has fired and been yielded in the same run
C20_Witness ==
    /\ MalformedOrdering
    /\ pc = "idle"
    /\ err = "SchedulerError"
    /\ cur_index_consideration_queue = 1
    /\ ~consideration_queue[2].iterable
    /\ Len(yielded) = 1
    /\ yielded[1] # {}
    /\ ~NoFiringInRun

(***************************************************************************)
(* Termination Conditions of the time scales.                              *)
(***************************************************************************)
\* time scale S has a termination Condition and it is satisfied
TerminationSatisfied(S) ==
    /\ S \in DOMAIN termination_conds.conds
    /\ termination_conds.conds[S] # None
    /\ is_satisfied(termination_conds.conds[S], "")

\* C21: the termination Condition of every time scale that has one is
\* evaluated at the start of every unit of the scale and ends execution at
\* that scale when satisfied: while one is satisfied no consideration set is
\* taken up, so that a satisfied PASS termination Condition keeps the nodes
\* of the pass from firing.
C21_EveryScaleTerminates ==
    [][\A S \in TimeScale :
          (pc = "layer_check" /\ TerminationSatisfied(S)) => pc' # "scan"]_vars

(***************************************************************************)
(* The order in which a consideration set is scanned.                      *)
(***************************************************************************)
\* a consideration set of nodes of the Scheduler has just been taken up
LayerJustStarted ==
    /\ pc = "scan"
    /\ cur_position = 1
    /\ cur_time_step_exec = {}
    /\ cur_consideration_set.elems \subseteq nodes
\* what the loop over the consideration set gives when it scans in this order
OutcomeOfOrder(order) ==
    scan_consideration_set(order, 1, {}, FALSE, counts_total, counts_useable)

\* C22: whenever a consideration set is taken up, the time step produced for
\* it and the counters after it are the same for every order in which its
\* nodes can be scanned.
C22_ScanOrderIrrelevant ==
    LayerJustStarted =>
        \A o1, o2 \in Perms(cur_consideration_set.elems) :
            OutcomeOfOrder(o1) = OutcomeOfOrder(o2)

(***************************************************************************)
(* Time steps and consideration sets.                                      *)
(***************************************************************************)
\* C23: every time step in execution_list that is not empty is a subset of
\* one consideration set, and with a queue built from a dependency graph no
\* time step holds two nodes of which one depends on the other, directly or
\* through other nodes.
C23_TimeStepWithinOneLayer ==
    \A i \in 1..Len(execution_list) :
        LET step == execution_list[i]
        IN  /\ step # {} =>
                  \E j \in 1..Len(consideration_queue) :
                      step \subseteq consideration_queue[j].elems
            /\ input.system.given =>
                  \A u \in step : \A v \in step \ {u} :
                      u \notin Ancestors(input.system.executionGraph, v)

C23_Witness ==
    /\ input = TwoProcessInput
    /\ Drained
    /\ \E i \in 1..Len(yielded) : yielded[i] = {"A", "B"}
    /\ \E i \in 1..Len(yielded) : yielded[i] = {"C"}

(***************************************************************************)
(* Two Schedulers.                                                         *)
(***************************************************************************)
\* the TRIAL termination Condition, evaluated on the counters of the
\* Scheduler that runs
SatisfiedOnOwnCounters ==
    satisfied_in(termination_conds.conds["TRIAL"], "", times, counts_total, counts_useable)

\* C24: the point at which the run of a Scheduler ends depends on its own
\* counters only, whatever Scheduler the caller has run before and whatever
\* termination_conds the caller passed to it: at the top of the trial loop the
\* generator returns if the TRIAL termination Condition is satisfied on the
\* counters of the Scheduler that runs, and begins a pass if it is not.
C24_TerminationReadsOwnCounters ==
    [][(pc = "trial_check" /\ "TRIAL" \in DOMAIN termination_conds.conds /\ pc' # pc) =>
          IF SatisfiedOnOwnCounters THEN pc' = "idle" ELSE pc' = "layer_check"]_vars

(***************************************************************************)
(* Successive runs.                                                        *)
(***************************************************************************)
\* a Condition that reads counters of the trial and of the pass only (None
\* stands for a node without a Condition, which run() gives Always)
ReadsTrialScope(c) ==
    \/ c.type \in {"None", "Always", "EveryNCalls", "AtPass", "AfterNPasses", "AllHaveRun"}
    \/ c.type = "AfterNCalls" /\ c.ts = "TRIAL"

\* the second run() of a Scheduler has returned, and it was given the
\* termination_conds the first was given
SecondRunOfSame ==
    /\ Drained
    /\ runs = 2
    /\ passed[1] = passed[2]
    /\ \A n \in nodes : ReadsTrialScope(condition_set[n])
    /\ \A ts \in DOMAIN termination_conds.conds : ReadsTrialScope(termination_conds.conds[ts])

\* C25: when the node and termination Conditions read trial- and pass-scoped
\* counters only, the second fully drained run() of a Scheduler, given the
\* same termination_conds as the first, yields the sequence of time steps
\* the first yielded.
C25_SecondRunRepeatsFirst ==
    SecondRunOfSame => yielded = list_at_start

C25_Witness ==
    /\ SecondRunOfSame
    /\ Len(yielded) >= 3
    /\ \E i \in 1..Len(yielded) : yielded[i] # {}
    /\ \E n \in nodes : condition_set[n].type = "EveryNCalls"
    /\ yielded = list_at_start

\* C26: the step that starts a run() (its validation passed) sets
\* counts_useable[a][b] for all nodes a and b, counts_total[TRIAL][n] for all
\* nodes n and times[TRIAL][*] to 0, and leaves counts_total[RUN],
\* counts_total[LIFE], times[RUN][*], times[LIFE][*] and execution_list as
\* they were.
C26_RunStartResetsTrialScope ==
    [][(StartsRun /\ err' = "none") =>
          /\ \A a \in nodes : \A b \in nodes : counts_useable'[a][b] = 0
          /\ \A n \in nodes : counts_total'["TRIAL"][n] = 0
          /\ \A ts \in TimeScale : times'["TRIAL"][ts] = 0
          /\ counts_total'["RUN"] = counts_total["RUN"]
          /\ counts_total'["LIFE"] = counts_total["LIFE"]
          /\ times'["RUN"] = times["RUN"]
          /\ times'["LIFE"] = times["LIFE"]
          /\ execution_list' = execution_list]_vars

\* the second run() has just started, after a first in which nodes ran
C26_Witness ==
    /\ pc = "trial_check"
    /\ runs = 2
    /\ yielded = <<>>
    /\ times["TRIAL"]["PASS"] = 0
    /\ times["RUN"]["PASS"] >= 2
    /\ times["LIFE"]["TIME_STEP"] >= 2
    /\ execution_list # <<>>
    /\ \E n \in nodes : counts_total["RUN"][n] >= 1 /\ counts_total["TRIAL"][n] = 0
    /\ \A a \in nodes : \A b \in nodes : counts_useable[a][b] = 0

(***************************************************************************)
(* When the counters of a time scale are reset.                            *)
(***************************************************************************)
\* the step increments the PASS counter (line 528), the TRIAL counter (530)
TicksPass == times'["LIFE"]["PASS"] = times["LIFE"]["PASS"] + 1
TicksTrial == times'["LIFE"]["TRIAL"] = times["LIFE"]["TRIAL"] + 1
\* the step begins a pass (lines 447-452)
BeginsPass == pc = "trial_check" /\ pc' = "layer_check"
ZeroTimes(S, t) == \A ts \in TimeScale : t[S][ts] = 0
ZeroCounts(S, total) == \A n \in DOMAIN total[S] : total[S][n] = 0

\* C27 as stated: immediately after the PASS counter is incremented at the
\* end of a pass, times[PASS][TIME_STEP] and counts_total[PASS][n] are 0, and
\* immediately after the TRIAL counter is incremented at the end of a run,
\* times[TRIAL][PASS] and times[TRIAL][TIME_STEP] are 0.
C27_CoarserTickResetsFiner ==
    [][/\ TicksPass => times'["PASS"]["TIME_STEP"] = 0 /\ ZeroCounts("PASS", counts_total')
       /\ TicksTrial => times'["TRIAL"]["PASS"] = 0 /\ times'["TRIAL"]["TIME_STEP"] = 0]_vars

\* C27 as amended: the increment of the PASS counter at the end of a pass
\* and of the TRIAL counter at the end of a run reset no finer counter (the
\* pass has counted at least one time step, and the counts stay); the counters of the pass are zeroed by the step that begins
\* the next pass, those of the trial by the step that starts the next run.
\* Node Conditions are evaluated after these resets, in a pass in which no
\* PASS tick and no TRIAL tick has been counted; the TRIAL termination
\* Condition at the top of the trial loop is evaluated before the reset, on
\* the counters the pass just ended has left.
C27_FinerResetWhenNextPeriodStarts ==
    /\ [](pc = "scan" => times["PASS"]["PASS"] = 0 /\ times["TRIAL"]["TRIAL"] = 0)
    /\ []((PassJustEnded /\ err = "none") =>
             times["PASS"]["PASS"] = 1 /\ times["PASS"]["TIME_STEP"] >= 1)
    /\ [][/\ TicksPass =>
                /\ times'["PASS"]["TIME_STEP"] >= times["PASS"]["TIME_STEP"]
                /\ times'["PASS"]["TIME_STEP"] >= 1
                /\ counts_total' = counts_total
          /\ TicksTrial =>
                /\ times'["TRIAL"]["PASS"] = times["TRIAL"]["PASS"]
                /\ times'["TRIAL"]["TIME_STEP"] = times["TRIAL"]["TIME_STEP"]
                /\ times'["TRIAL"]["TIME_STEP"] >= times'["TRIAL"]["PASS"]
          /\ BeginsPass => ZeroTimes("PASS", times') /\ ZeroCounts("PASS", counts_total')
          /\ (StartsRun /\ err' = "none") => ZeroTimes("TRIAL", times')]_vars

\* a pass in which a node ran has ended, the trial goes on: the TRIAL
\* termination Condition has been evaluated on the counters of that pass
C27_Witness ==
    /\ pc = "trial_check"
    /\ err = "none"
    /\ "TRIAL" \in DOMAIN termination_conds.conds
    /\ ~trial_terminated
    /\ times["PASS"]["PASS"] = 1
    /\ times["PASS"]["TIME_STEP"] >= 2
    /\ \E n \in nodes : counts_total["PASS"][n] >= 1

(***************************************************************************)
(* EveryNCalls along a Projection.                                         *)
(***************************************************************************)
\* the Scheduler of A -> B with A under Always and B under EveryNCalls(A, n)
EdgeEveryN ==
    /\ consideration_queue = <<Layer({"A"}), Layer({"B"})>>
    /\ condition_set["A"].type = "Always"
    /\ condition_set["B"].type = "EveryNCalls"
    /\ condition_set["B"].dep = "A"
    /\ condition_set["B"].n >= 1
\* counts_total[TRIAL][B] == floor(counts_total[TRIAL][A] / n)
OncePerN ==
    counts_total["TRIAL"]["B"] = counts_total["TRIAL"]["A"] \div condition_set["B"].n
\* in the pass that has ended, a time step with B comes after one with A
BFollowsA ==
    \A i \in 1..Len(StepsOfPass) :
        "B" \in StepsOfPass[i] => \E j \in 1..(i - 1) : "A" \in StepsOfPass[j]
\* the pass that has ended took up every consideration set of the queue
PassWasWhole == cur_index_consideration_queue = Len(consideration_queue)

\* C28 as stated: for A -> B with A under Always and B under
\* EveryNCalls(A, n), at the end of every pass of a trial counts_total[TRIAL][B]
\* is floor(counts_total[TRIAL][A] / n), and the firing of B in a pass follows
\* the firing of A in that pass.
C28_OncePerNAtEveryPassEnd ==
    (PassJustEnded /\ err = "none" /\ EdgeEveryN) => OncePerN /\ BFollowsA

\* C28 as amended: the same at the end of every pass that took up every
\* consideration set.  A pass that the TRIAL termination Condition cuts
\* short after the time step of A (line 456) ends without B having been
\* considered: B has then fired floor(counts_total[TRIAL][A] / n) times, or
\* once less when this call of A is the n-th since B fired.
C28_OncePerNAtWholePassEnd ==
    (PassJustEnded /\ err = "none" /\ EdgeEveryN) =>
        /\ BFollowsA
        /\ PassWasWhole => OncePerN
        /\ ~PassWasWhole =>
              /\ trial_terminated
              /\ \/ OncePerN
                 \/ /\ counts_total["TRIAL"]["A"] % condition_set["B"].n = 0
                    /\ counts_total["TRIAL"]["B"] + 1 =
                         counts_total["TRIAL"]["A"] \div condition_set["B"].n

\* a whole pass has ended in which B fired for the second time, after four
\* or more calls of A
C28_Witness ==
    /\ PassJustEnded
    /\ err = "none"
    /\ EdgeEveryN
    /\ PassWasWhole
    /\ condition_set["B"].n >= 2
    /\ counts_total["TRIAL"]["B"] = 2
    /\ counts_total["PASS"]["B"] = 1
    /\ OncePerN

(***************************************************************************)
(* The loop over a consideration set.                                      *)
(***************************************************************************)
\* the do-while loop of lines 475-507 is at its break
LoopEnds == scan_done /\ ~cur_consideration_set_has_changed

\* C29: when the loop over a consideration set ends, every node of the set
\* that is not in the time step has a Condition that is not satisfied on the
\* counters as the loop leaves them; a node whose Condition became satisfied
\* through the firing of another node of the set in this time step is in the
\* time step.
C29_TimeStepClosed ==
    LoopEnds =>
        \A n \in cur_consideration_set.elems \ cur_time_step_exec :
            ~is_satisfied(condition_set[n], n)

\* the first time step of a run holds A and B: B, scanned first under
\* EveryNCalls(A, 1), was added in the second scan, after A had fired
C29_Witness ==
    /\ LoopEnds
    /\ execution_list = <<>>
    /\ cur_iteration = <<"B", "A">>
    /\ condition_set["B"] = EveryNCalls("A", 1)
    /\ cur_time_step_exec = {"A", "B"}

\* C30: within one time step a node is added to the time step, and counted,
\* at most once: the counts of a node change only in the step that adds it to
\* a time step it is not in, by one at every time scale, and the time step
\* only grows while its consideration set is scanned.  The for loop over a
\* consideration set of k nodes runs at most once more than nodes have been
\* added, so at most k + 1 times.
C30_AddedOnceScansBounded ==
    /\ [](pc = "scan" =>
            /\ cur_iteration \in Perms(cur_consideration_set.elems)
            /\ cur_time_step_exec \subseteq cur_consideration_set.elems
            /\ cur_scan <= Cardinality(cur_time_step_exec) + 1
            /\ cur_scan <= Cardinality(cur_consideration_set.elems) + 1)
    /\ [][(pc = "scan" /\ pc' = "scan") =>
            /\ cur_time_step_exec \subseteq cur_time_step_exec'
            /\ \A n \in nodes :
                  counts_total'["LIFE"][n] # counts_total["LIFE"][n] =>
                      /\ n \notin cur_time_step_exec
                      /\ cur_time_step_exec' = cur_time_step_exec \cup {n}
                      /\ \A ts \in TimeScale :
                            counts_total'[ts][n] = counts_total[ts][n] + 1]_vars

\* the loop over a set of two nodes whose Conditions enable one another ends
\* in its third scan, each node added once
C30_Witness ==
    /\ LoopEnds
    /\ condition_set = validate_condition_set(AlternateConditions)
    /\ Cardinality(cur_consideration_set.elems) = 2
    /\ cur_time_step_exec = cur_consideration_set.elems
    /\ cur_scan = 3
    /\ \A n \in cur_time_step_exec : counts_total["TIME_STEP"][n] >= 1

(***************************************************************************)
(* The loop over the consideration queue.                                  *)
(***************************************************************************)
\* the step takes up a consideration set (lines 454-476)
TakesUpLayer == pc = "layer_check" /\ pc' \in {"scan", "idle"}

\* C31: within a pass the consideration sets are taken up in increasing
\* queue index, each at most once, and none is taken up while the TRIAL
\* termination Condition is satisfied; and when the Condition has been found
\* satisfied before a consideration set, so that the pass ends with sets
\* left, the generator counts the pass and the trial and returns: no node is
\* selected any more in that run.
C31_TerminationFoundEndsRun ==
    /\ []((PassJustEnded /\ err = "none" /\ ~PassWasWhole) => trial_terminated)
    /\ [][/\ TakesUpLayer => ~trial_terminated
          /\ InPass =>
                \/ cur_index_consideration_queue' = cur_index_consideration_queue
                \/ /\ cur_index_consideration_queue' = cur_index_consideration_queue + 1
                   /\ pc \in {"yield_step", "scan"}]_vars

(***************************************************************************)
(* The TIME_STEP counter.                                                  *)
(***************************************************************************)
\* the caller holds one generator at a time
OneGenerator == suspended = NoFrame
\* the step resumes the generator that is suspended at a yield
Resumes == AtYield /\ pc' \in {"layer_check", "trial_check"} /\ runs' = runs

\* C32 as stated: at every yield, times[LIFE][TIME_STEP] is the number of time
\* steps yielded before the current one since the Scheduler was made, and
\* times[TRIAL][TIME_STEP] the number yielded before it in the current run.
C32_StepsCountedAtEveryYield ==
    (AtYield /\ OneGenerator) =>
        /\ times["LIFE"]["TIME_STEP"] = Len(execution_list) - 1
        /\ times["TRIAL"]["TIME_STEP"] = Len(yielded) - 1

\* C32 as amended: the TIME_STEP counter is incremented by one when the
\* generator is resumed after a yield, and by nothing else; a time step
\* after which the generator was dropped is never counted.  At every yield
\* times[TRIAL][TIME_STEP] is the number of time steps yielded before the
\* current one in the current run, and times[LIFE][TIME_STEP] the number
\* yielded before it since the Scheduler was made less the number of
\* generators dropped at a yield.
C32_StepsCountedWhenResumed ==
    /\ []((AtYield /\ OneGenerator) =>
            /\ times["LIFE"]["TIME_STEP"] = Len(execution_list) - 1 - abandoned
            /\ times["TRIAL"]["TIME_STEP"] = Len(yielded) - 1)
    /\ [][/\ Resumes => times'["LIFE"]["TIME_STEP"] = times["LIFE"]["TIME_STEP"] + 1
          /\ ~Resumes => times'["LIFE"]["TIME_STEP"] = times["LIFE"]["TIME_STEP"]]_vars

\* a time step of the second run is yielded after the first generator was
\* dropped at a yield, two time steps of which had been counted
C32_Witness ==
    /\ AtYield
    /\ OneGenerator
    /\ runs = 2
    /\ abandoned = 1
    /\ Len(list_at_start) = 3
    /\ Len(yielded) = 2
    /\ times["LIFE"]["TIME_STEP"] = 3
    /\ times["TRIAL"]["TIME_STEP"] = 1

(***************************************************************************)
(* The PASS and TRIAL counters.                                            *)
(***************************************************************************)
\* the step ends a pass (line 528), returns from the generator (530-532),
\* makes the first resumption of a new generator
PassEnds == pc \in {"layer_check", "yield_empty"} /\ pc' = "trial_check" /\ runs' = runs
Returns == pc = "trial_check" /\ pc' = "idle" /\ err' = "none"
NewRun == runs' = runs + 1
\* every run() call so far was given termination_conds with which it can go on
AllWithTrial == \A i \in 1..Len(passed) : WithTrial(passed[i])

\* C33: times[TRIAL][PASS] is 0 when a run starts, is incremented by one by
\* the step that ends a pass and changed by no other step of the run, so that
\* the node Conditions of the k-th pass of a trial (k from 0) are evaluated
\* with times[TRIAL][PASS] = k; times[RUN][TRIAL] is incremented by one by
\* the return of a drained generator, with or without a pass made, and by
\* nothing else: it is the number of run() calls less the generators dropped
\* at a yield and the one not yet ended.
C33_PassAndTrialCountedOnce ==
    /\ []((input = NeverInput /\ OneGenerator /\ pc = "scan") =>
            times["TRIAL"]["PASS"] = Len(yielded))
    /\ []((OneGenerator /\ AllWithTrial /\ runs >= 1) =>
            times["RUN"]["TRIAL"] = runs - abandoned - (IF pc = "idle" THEN 0 ELSE 1))
    /\ [][/\ (NewRun /\ err' = "none") => times'["TRIAL"]["PASS"] = 0
          /\ PassEnds => times'["TRIAL"]["PASS"] = times["TRIAL"]["PASS"] + 1
          /\ (~PassEnds /\ ~NewRun) => times'["TRIAL"]["PASS"] = times["TRIAL"]["PASS"]
          /\ Returns => times'["RUN"]["TRIAL"] = times["RUN"]["TRIAL"] + 1
          /\ ~Returns => times'["RUN"]["TRIAL"] = times["RUN"]["TRIAL"]]_vars

\* the second run() of a Scheduler has returned after three passes; the first
\* generator was dropped at a yield and was not counted
C33_Witness ==
    /\ OneGenerator
    /\ pc = "idle"
    /\ err = "none"
    /\ runs = 2
    /\ abandoned = 1
    /\ returned # <<>>
    /\ times["TRIAL"]["PASS"] = 3
    /\ times["RUN"]["TRIAL"] = 1

(***************************************************************************)
(* Two generators of one Scheduler.                                        *)
(***************************************************************************)
\* the step is the first resumption of a second generator while the first is
\* suspended at a yield
SecondResumedAtYield == AtYield /\ NewRun /\ err' = "none"
\* the generator the caller resumed last is the first of the two it holds
FirstOfTwo == suspended # NoFrame /\ suspended.run = runs

\* C34: the first resumption of a second generator on a Scheduler whose first
\* generator is suspended at a yield zeroes counts_useable, counts_total[TRIAL]
\* and times[TRIAL][*] and puts its own termination_conds in place of those of
\* the first, which finds them so when it is resumed (C34_Witness: it then
\* yields another sequence than alone).
C34_SecondGeneratorResetsTheFirst ==
    /\ [][SecondResumedAtYield =>
            /\ \A a \in nodes : \A b \in nodes : counts_useable'[a][b] = 0
            /\ ZeroCounts("TRIAL", counts_total')
            /\ ZeroTimes("TRIAL", times')
            /\ termination_conds' = validate_termination(passed'[Len(passed')]).conds
            /\ execution_list' = execution_list]_vars
    /\ [][(suspended # NoFrame /\ suspended' # suspended) =>
            UNCHANGED <<termination_conds, times, counts_total, counts_useable,
                        execution_list>>]_vars

\* the first generator of the docstring example, resumed after a second was
\* started at one of its yields, has returned with another sequence than
\* A, B, B, A, B, B
C34_Witness ==
    /\ input = AlternateInput
    /\ FirstOfTwo
    /\ pc = "idle"
    /\ err = "none"
    /\ returned # <<>>
    /\ IsPrefix(<<{"A"}, {"B"}>>, yielded)
    /\ yielded # AlternateExpected

(***************************************************************************)
(* What changes the counters and the history.                              *)
(***************************************************************************)
\* the step considers a node that is not in the time step and whose
\* Condition is not satisfied
ConsidersUnsatisfied ==
    /\ pc = "scan"
    /\ pc' = "scan"
    /\ cur_position' = cur_position + 1
    /\ cur_iteration[cur_position] \notin cur_time_step_exec
    /\ cur_time_step_exec' = cur_time_step_exec
\* the step adds a node to the time step (lines 486-504)
FiringUpdate == pc = "scan" /\ cur_time_step_exec' # cur_time_step_exec
\* the step appends the time step to execution_list and yields it
Yields == pc \in {"scan", "layer_check"} /\ pc' \in {"yield_step", "yield_empty"}
Mutable == <<times, counts_total, counts_useable, execution_list>>

\* C35 as stated: the consideration of a node whose Condition is not
\* satisfied leaves times, counts_total, counts_useable and execution_list as
\* they are; a step of run() changes one of them only if it is the firing
\* update of a node, the reset at the start of a run or of a pass, or the
\* counter increment after a yield or at the end of a pass or of the trial.
C35_MutatedOnlyByUpdateResetIncrement ==
    [][/\ ConsidersUnsatisfied => UNCHANGED Mutable
       /\ (Constructed /\ Mutable' # Mutable) =>
             FiringUpdate \/ NewRun \/ BeginsPass \/ Resumes \/ PassEnds \/ Returns]_vars

\* C35 as amended: the same, with the step that yields a time step, which
\* appends it to execution_list (lines 510 and 519), among the steps that
\* change them.  execution_list is changed by that step only, counts_total
\* and counts_useable by the firing update and the resets only, times by the
\* resets and the increments only.
C35_MutatedOnlyByUpdateResetIncrementAppend ==
    [][/\ ConsidersUnsatisfied => UNCHANGED Mutable
       /\ (Constructed /\ execution_list' # execution_list) =>
             Yields /\ \E step \in SUBSET Node : execution_list' = Append(execution_list, step)
       /\ (Constructed /\ <<counts_total, counts_useable>>' # <<counts_total, counts_useable>>) =>
             FiringUpdate \/ NewRun \/ BeginsPass
       /\ (Constructed /\ times' # times) =>
             NewRun \/ BeginsPass \/ Resumes \/ PassEnds \/ Returns]_vars

\* B, under EveryNCalls(A, 2), has been considered and left out after A has
\* run once: the counters stand as A's firing left them
C35_Witness ==
    /\ scan_done
    /\ condition_set["B"] = EveryNCalls("A", 2)
    /\ cur_iteration = <<"B">>
    /\ cur_time_step_exec = {}
    /\ counts_useable["A"]["B"] = 1
    /\ counts_total["PASS"]["A"] = 1
    /\ execution_list = <<{"A"}>>

(***************************************************************************)
(* A node's count of its own calls.                                        *)
(***************************************************************************)
\* C36: the step in which node n fires leaves counts_useable[n][n] at 1; from
\* the start of a run on counts_useable[n][n] is 0 as long as n has not fired
\* in the trial and 1 from then on, so that EveryNCalls(n, 1), owned by n, is
\* not satisfied before the first firing of n in the trial and is satisfied
\* whenever n is considered after it.
C36_OwnCallCountIsOne ==
    /\ [](Constructed =>
            \A n \in nodes :
                /\ counts_useable[n][n] = IF counts_total["TRIAL"][n] >= 1 THEN 1 ELSE 0
                /\ is_satisfied(EveryNCalls(n, 1), n) <=> counts_total["TRIAL"][n] >= 1)
    /\ [][\A n \in nodes : Fires(n) => counts_useable'[n][n] = 1]_vars

\* B of the docstring example has fired a second time, on its own call: A
\* has run once
C36_Witness ==
    /\ input = AlternateInput
    /\ pc = "scan"
    /\ cur_time_step_exec = {"B"}
    /\ yielded = <<{"A"}, {"B"}>>
    /\ counts_total["TRIAL"]["A"] = 1
    /\ counts_total["TRIAL"]["B"] = 2
    /\ counts_useable["B"]["B"] = 1

(***************************************************************************)
(* The firing counts of the time scales.                                   *)
(***************************************************************************)
NestedFrom(S, n) ==
    \A T \in TimeScale \ {"TIME_STEP"} :
        (Rank(S) <= Rank(T)) =>
            \A U \in TimeScale : Rank(T) <= Rank(U) => counts_total[T][n] <= counts_total[U][n]
\* a node Condition can be evaluated here, the TRIAL termination Condition
NodeConditionPoint == pc = "scan"
TerminationPoint == pc \in {"trial_check", "layer_check"}

\* C37 as stated: whenever a node Condition or the TRIAL termination
\* Condition is evaluated, in any run of a Scheduler, counts_total[PASS][n] <=
\* counts_total[TRIAL][n] <= counts_total[RUN][n] <= counts_total[LIFE][n] for
\* every node n.
C37_CountsNestedAtEveryEvaluation ==
    (NodeConditionPoint \/ TerminationPoint) => \A n \in nodes : NestedFrom("PASS", n)

\* C37 as amended: the counts are so nested whenever a node Condition is
\* evaluated, and whenever the TRIAL termination Condition is evaluated in a
\* pass or after one of the run; when it is evaluated at the top of the
\* trial loop before the first pass of a run, counts_total[PASS] still holds
\* the counts of the last pass of the run before, and only
\* counts_total[TRIAL][n] <= counts_total[RUN][n] <= counts_total[LIFE][n]
\* holds.
C37_CountsNestedOncePassBegun ==
    /\ (NodeConditionPoint \/ pc = "layer_check") => \A n \in nodes : NestedFrom("PASS", n)
    /\ (pc = "trial_check" /\ times["TRIAL"]["PASS"] >= 1) =>
            \A n \in nodes : NestedFrom("PASS", n)
    /\ pc = "trial_check" => \A n \in nodes : NestedFrom("TRIAL", n)

\* the second run is at the top of its trial loop: A has fired in the first
\* run, its count of the last pass stands, its count of the trial is zeroed
C37_Witness ==
    /\ pc = "trial_check"
    /\ runs = 2
    /\ "A" \in nodes
    /\ times["TRIAL"]["PASS"] = 0
    /\ counts_total["PASS"]["A"] = 1
    /\ counts_total["TRIAL"]["A"] = 0
    /\ counts_total["RUN"]["A"] >= 2

(***************************************************************************)
(* The firing counts and the history.                                      *)
(***************************************************************************)
\* the number of sets of list that contain n
Occurrences(list, n) == Cardinality({i \in 1..Len(list) : n \in list[i]})
\* the sets appended to execution_list since the run started
AppendedInRun == SubSeq(execution_list, Len(list_at_start) + 1, Len(execution_list))
CountsMatchHistory ==
    \A n \in nodes :
        /\ counts_total["LIFE"][n] = Occurrences(execution_list, n)
        /\ counts_total["TRIAL"][n] = Occurrences(AppendedInRun, n)

\* C38 as stated: at every yield and after every drained run, for every node
\* n, counts_total[LIFE][n] is the number of sets in execution_list that
\* contain n, and counts_total[TRIAL][n] the number of sets appended during
\* the current run that contain n.
C38_CountsMatchHistory ==
    (AtYield \/ Drained) => CountsMatchHistory

\* every node of the consideration queue is a node of the Scheduler: no run
\* raises KeyError between the firing of a node and the append of its time
\* step
QueueWithinNodes ==
    \A i \in 1..Len(consideration_queue) : consideration_queue[i].elems \subseteq nodes

\* C38 as amended: the same for a Scheduler whose consideration queue holds
\* nodes of the Scheduler only.  With a set that holds another node, a run
\* raises KeyError in the scan of that set, after nodes of it may have been
\* counted and before the time step is appended: from then on the counts of
\* these nodes are above the number of sets that contain them.  In every
\* case the counts are at least these numbers when a time step has been
\* appended.
C38_CountsMatchHistoryOfSoundQueue ==
    /\ ((AtYield \/ Drained) /\ QueueWithinNodes) => CountsMatchHistory
    /\ (AtYield \/ Drained) =>
            \A n \in nodes :
                /\ counts_total["LIFE"][n] >= Occurrences(execution_list, n)
                /\ counts_total["TRIAL"][n] >= Occurrences(AppendedInRun, n)

\* a time step of the second run of the docstring example is yielded
C38_Witness ==
    /\ input = AlternateInput
    /\ AtYield
    /\ runs = 2
    /\ Len(list_at_start) = 6
    /\ counts_total["LIFE"]["B"] = 6
    /\ counts_total["TRIAL"]["B"] = 2
    /\ Occurrences(execution_list, "B") = 6
    /\ Occurrences(AppendedInRun, "B") = 2

(***************************************************************************)
(* Firings in a pass.                                                      *)
(***************************************************************************)
\* the consideration sets are sets, and no node is in two of them
DisjointLayers ==
    /\ \A i \in 1..Len(consideration_queue) : consideration_queue[i].iterable
    /\ \A i \in 1..Len(consideration_queue) : \A j \in 1..Len(consideration_queue) :
          i # j => consideration_queue[i].elems \cap consideration_queue[j].elems = {}
\* the time steps of the pass that has ended which are not empty
NonEmptyStepsOfPass == {i \in 1..Len(StepsOfPass) : StepsOfPass[i] # {}}

\* C39: with consideration sets that are pairwise disjoint, a node fires at
\* most once in a pass: counts_total[PASS][n] <= 1 in every state, and the
\* time steps of a pass that are not empty are at most as many as the
\* consideration sets.
C39_OncePerPass ==
    (Constructed /\ DisjointLayers) =>
        /\ \A n \in nodes : counts_total["PASS"][n] <= 1
        /\ (PassJustEnded /\ err = "none") =>
              Cardinality(NonEmptyStepsOfPass) <= Len(consideration_queue)

\* a pass of A -> B -> C with every node under Always has ended: three time
\* steps, one for each consideration set
C39_Witness ==
    /\ PassJustEnded
    /\ err = "none"
    /\ DisjointLayers
    /\ Len(consideration_queue) = 3
    /\ Cardinality(NonEmptyStepsOfPass) = 3
    /\ \A n \in nodes : counts_total["PASS"][n] = 1

(***************************************************************************)
(* A run rejected for its TRIAL termination Condition.                     *)
(***************************************************************************)
\* a run() call whose termination_conds leave TRIAL as None
RejectedRun == StartsRun /\ TrialUnset(termination_conds')

\* C40 as stated: a run() that fails validation because termination_conds
\* leave TRIAL as None leaves the Scheduler as it was before the call: times,
\* counts_total, counts_useable, execution_list, the condition set and
\* termination_conds are unchanged, and nothing is yielded.
C40_RejectedRunLeavesNoTrace ==
    [][RejectedRun =>
          /\ err' = "SchedulerError"
          /\ pc' = "idle"
          /\ yielded' = <<>>
          /\ UNCHANGED <<times, counts_total, counts_useable, execution_list,
                         condition_set, termination_conds>>]_vars

\* C40 as amended: the rejected run leaves times, counts_total, counts_useable
\* and execution_list as they were and yields nothing, but termination_conds
\* holds the rejected mapping afterwards and every node that had no Condition
\* has been given Always, the Conditions of the other nodes being kept.
C40_RejectedRunKeepsCountersOnly ==
    [][RejectedRun =>
          /\ err' = "SchedulerError"
          /\ pc' = "idle"
          /\ yielded' = <<>>
          /\ UNCHANGED <<times, counts_total, counts_useable, execution_list>>
          /\ termination_conds'.conds = passed'[Len(passed')].conds
          /\ \A n \in nodes :
                condition_set'[n] = IF condition_set[n] = None THEN Always
                                    ELSE condition_set[n]]_vars

\* a second run has been rejected after a first one that fired nodes: the
\* counters and the history of the first run are there, termination_conds is
\* the rejected mapping
C40_Witness ==
    /\ runs = 2
    /\ pc = "idle"
    /\ err = "SchedulerError"
    /\ TrialUnset(termination_conds)
    /\ yielded = <<>>
    /\ execution_list = list_at_start
    /\ execution_list # <<>>
    /\ \E n \in nodes : counts_total["TRIAL"][n] > 0
    /\ times["TRIAL"]["PASS"] > 0

====
